---- MODULE Spec2Model ----
(***************************************************************************)
(* A model of the block editor "note": the block document, the cursor      *)
(* navigator, the text operation engine, the block converter and the       *)
(* Writer that dispatches key events to them.                              *)
(*                                                                         *)
(* A text fragment (a JavaScript string) is a sequence of one-character    *)
(* strings.  Positions are zero-based as in the source; the element at     *)
(* JavaScript index i of a sequence s is s[i + 1].                          *)
(***************************************************************************)
EXTENDS Integers, Sequences, FiniteSets, TLC

VARIABLES
    content,    \* Writer.content: the document, a sequence of blocks
    pointer,    \* Writer.pointer: <<blockIndex, contentIndex, charIndex>>
    threw,      \* TRUE when the last call ended in an uncaught TypeError
    mode,       \* ViewManager.currentMode
    plainText,  \* the text of the PlainTextEditor while the plain view is shown
    input,      \* the arguments the sequence of calls in ops started from
    ops         \* the names of the functions applied to input, in order

vars == <<content, pointer, threw, mode, plainText, input, ops>>

----------------------------------------------------------------------------
(* Bounds *)

\* largest size (blocks plus characters) a document grows to through key events
MaxSize == 4
\* largest size of a document on which the view is switched to plain text
MaxViewSize == 3
\* longest text typed into the plain-text view
MaxPlainLen == 3
\* most blocks of a document handed to a function directly
MaxDocBlocks == 2
\* longest fragment of a document handed to a function directly
MaxLen == 2
\* most characters a document holds while keys are typed into one block
MaxTyped == 7
\* most characters a document holds while keys are typed and deleted
MaxEdited == 3
\* longest text handed to markdownToBlocks
MaxMarkdownLen == 5
\* most conversions between blocks and markdown applied in a row
MaxConversions == 4
\* longest text of markers handed to processInlineMarkdown
MaxInlineLen == 4
\* longest text between the braces after an image
MaxDimensionLen == 3
\* longest text pasted at once
MaxPasted == 3
\* longest block sequence cleaned
MaxCleaned == 4
\* longest text handed to detectBlockMarkdown
MaxDetectedLen == 4
\* most cuts whose clipboard write is pending at once
MaxPending == 1
\* most overlay-removal timers of the configuration modal pending at once
MaxTimers == 4
\* most functions applied in a row to one input
MaxOps == 2

----------------------------------------------------------------------------
(* JavaScript strings and arrays *)

Min(a, b) == IF a < b THEN a ELSE b

Max(a, b) == IF a > b THEN a ELSE b

\* String.prototype.slice(from, to) for from, to >= 0
Slice(s, from, to) == SubSeq(s, Min(from, Len(s)) + 1, Min(to, Len(s)))

\* String.prototype.slice(from) for from >= 0
SliceFrom(s, from) == SubSeq(s, Min(from, Len(s)) + 1, Len(s))

\* the backtick character (the parser admits no backtick inside a string)
Backtick == "BACKTICK"

\* the characters String.prototype.trim and the regular expression \s remove
WhiteSpace == {" ", "\n"}

\* the characters the regular expression . does not match
LineTerminators == {"\n"}

RECURSIVE TrimStart(_)
TrimStart(s) ==
    IF s # <<>> /\ Head(s) \in WhiteSpace THEN TrimStart(Tail(s)) ELSE s

RECURSIVE TrimEnd(_)
TrimEnd(s) ==
    IF s # <<>> /\ s[Len(s)] \in WhiteSpace
    THEN TrimEnd(SubSeq(s, 1, Len(s) - 1))
    ELSE s

\* String.prototype.trim
Trim(s) == TrimEnd(TrimStart(s))

\* Array.prototype.splice(at, 1): the array without the element at index at
SpliceOut(arr, at) ==
    IF at + 1 \in DOMAIN arr
    THEN SubSeq(arr, 1, at) \o SubSeq(arr, at + 2, Len(arr))
    ELSE arr

\* Array.prototype.splice(at, 0, x): the array with x inserted at index at
SpliceIn(arr, at, x) ==
    SubSeq(arr, 1, Min(at, Len(arr))) \o <<x>> \o SliceFrom(arr, at)

----------------------------------------------------------------------------
(* Blocks  (types.ts, utils/blockUtils.ts) *)

\* a text fragment of a content array
Str(s) == [typeof |-> "string", text |-> s, block |-> <<>>]

\* a nested inline Block b of a content array
Nested(b) == [typeof |-> "object", text |-> <<>>, block |-> <<b>>]

\* what indexing a content array out of range yields
Undefined == [typeof |-> "undefined", text |-> <<>>, block |-> <<>>]

\* the attrs object {}: attrs map attribute names to strings
NoAttrs == [k \in {} |-> <<>>]

\* the attrs object { key: value }
Attr(key, value) == [k \in {key} |-> value]

\* the object spread { ...a, ...b }
MergeAttrs(a, b) ==
    [k \in (DOMAIN a) \cup (DOMAIN b) |-> IF k \in DOMAIN b THEN b[k] ELSE a[k]]

\* Number.prototype.toString for 0..9
DigitString(n) ==
    <<CASE n = 0 -> "0" [] n = 1 -> "1" [] n = 2 -> "2" [] n = 3 -> "3"
        [] n = 4 -> "4" [] n = 5 -> "5" [] n = 6 -> "6" [] n = 7 -> "7"
        [] n = 8 -> "8" [] OTHER -> "9">>

\* the strings 'unordered' and 'ordered'
Unordered == <<"u", "n", "o", "r", "d", "e", "r", "e", "d">>

Ordered == <<"o", "r", "d", "e", "r", "e", "d">>

\* the identifiers Math.random may yield in generateBlockId
BlockIds == {<<"random", 1>>, <<"random", 2>>}

\* createBlock, with id the value generateBlockId returned for it
createBlock(id, type, blockContent, attrs) ==
    [id |-> id, type |-> type, content |-> blockContent, attrs |-> attrs]

createEmptyParagraph(id) == createBlock(id, "paragraph", <<Str(<<>>)>>, NoAttrs)

\* block.content[i]
ContentAt(block, i) ==
    IF i + 1 \in DOMAIN block.content THEN block.content[i + 1] ELSE Undefined

\* the assignment block.content[i] = text, for an index inside the array
SetContentAt(block, i, text) ==
    IF i + 1 \in DOMAIN block.content
    THEN [block EXCEPT !.content[i + 1] = Str(text)]
    ELSE block

isEmptyBlock(block) ==
    \/ Len(block.content) = 0
    \/ /\ Len(block.content) = 1
       /\ block.content[1].typeof = "string"
       /\ Trim(block.content[1].text) = <<>>

\* blocks[i] is not undefined
HasBlock(blocks, i) == i + 1 \in DOMAIN blocks

----------------------------------------------------------------------------
(* Cursor navigator  (editor/cursor.ts) *)

\* what a navigator call yields: the position it returns, or a TypeError
Moved(position) == [newPosition |-> position, threw |-> FALSE]

MoveThrew(position) == [newPosition |-> position, threw |-> TRUE]

\* typeof c === 'string' ? c.length : 0
StringLength(c) == IF c.typeof = "string" THEN Len(c.text) ELSE 0

moveCursorLeft(blocks, currentPosition) ==
    LET blockIndex == currentPosition[1]
        contentIndex == currentPosition[2]
        charIndex == currentPosition[3]
    IN  IF charIndex > 0
        THEN Moved(<<blockIndex, contentIndex, charIndex - 1>>)
        ELSE IF blockIndex > 0
        THEN IF ~HasBlock(blocks, blockIndex - 1)
             THEN MoveThrew(currentPosition)  \* prevBlock.content of undefined
             ELSE LET prevBlock == blocks[blockIndex]
                      lastContentIndex == Len(prevBlock.content) - 1
                      lastContent == ContentAt(prevBlock, lastContentIndex)
                  IN  Moved(<<blockIndex - 1, lastContentIndex, StringLength(lastContent)>>)
        ELSE Moved(currentPosition)

moveCursorRight(blocks, currentPosition) ==
    LET blockIndex == currentPosition[1]
        contentIndex == currentPosition[2]
        charIndex == currentPosition[3]
    IN  IF ~HasBlock(blocks, blockIndex)
        THEN Moved(currentPosition)
        ELSE LET currentContent == ContentAt(blocks[blockIndex + 1], contentIndex)
             IN  IF charIndex < StringLength(currentContent)
                 THEN Moved(<<blockIndex, contentIndex, charIndex + 1>>)
                 ELSE IF blockIndex < Len(blocks) - 1
                 THEN Moved(<<blockIndex + 1, 0, 0>>)
                 ELSE Moved(currentPosition)

\* moveCursorUp keeping the horizontal offset without limiting it to the
\* previous block's text
moveCursorUpUnclamped(blocks, currentPosition) ==
    LET blockIndex == currentPosition[1]
        charIndex == currentPosition[3]
    IN  IF blockIndex > 0
        THEN IF ~HasBlock(blocks, blockIndex - 1)
             THEN MoveThrew(currentPosition)
             ELSE LET prevBlock == blocks[blockIndex]
                      lastContentIndex == Len(prevBlock.content) - 1
                  IN  Moved(<<blockIndex - 1, lastContentIndex, charIndex>>)
        ELSE Moved(currentPosition)

moveCursorUp(blocks, currentPosition) ==
    LET blockIndex == currentPosition[1]
        charIndex == currentPosition[3]
    IN  IF blockIndex > 0
        THEN IF ~HasBlock(blocks, blockIndex - 1)
             THEN MoveThrew(currentPosition)  \* prevBlock.content of undefined
             ELSE LET prevBlock == blocks[blockIndex]
                      lastContentIndex == Len(prevBlock.content) - 1
                      lastContent == ContentAt(prevBlock, lastContentIndex)
                  IN  Moved(<<blockIndex - 1, lastContentIndex,
                              Min(charIndex, StringLength(lastContent))>>)
        ELSE Moved(currentPosition)

\* moveCursorDown keeping the horizontal offset without limiting it to the
\* next block's text
moveCursorDownUnclamped(blocks, currentPosition) ==
    LET blockIndex == currentPosition[1]
        charIndex == currentPosition[3]
    IN  IF blockIndex < Len(blocks) - 1
        THEN IF ~HasBlock(blocks, blockIndex + 1)
             THEN MoveThrew(currentPosition)
             ELSE Moved(<<blockIndex + 1, 0, charIndex>>)
        ELSE Moved(currentPosition)

moveCursorDown(blocks, currentPosition) ==
    LET blockIndex == currentPosition[1]
        charIndex == currentPosition[3]
    IN  IF blockIndex < Len(blocks) - 1
        THEN IF ~HasBlock(blocks, blockIndex + 1)
             THEN MoveThrew(currentPosition)  \* nextBlock.content of undefined
             ELSE LET nextBlock == blocks[blockIndex + 2]
                      firstContent == ContentAt(nextBlock, 0)
                  IN  Moved(<<blockIndex + 1, 0,
                              Min(charIndex, StringLength(firstContent))>>)
        ELSE Moved(currentPosition)

\* getCurrentContent: the addressed fragment, '' when there is none
getCurrentContent(blocks, position) ==
    IF ~HasBlock(blocks, position[1])
    THEN <<>>
    ELSE LET c == ContentAt(blocks[position[1] + 1], position[2])
         IN  IF c.typeof = "string" THEN c.text ELSE <<>>

----------------------------------------------------------------------------
(* Text operation engine  (editor/textOperations.ts) *)

\* what an operation yields: { blocks, newPosition }, or a TypeError
Result(blocks, position) ==
    [blocks |-> blocks, newPosition |-> position, threw |-> FALSE]

Threw(blocks, position) ==
    [blocks |-> blocks, newPosition |-> position, threw |-> TRUE]

insertCharacter(blocks, position, char) ==
    LET blockIndex == position[1]
        contentIndex == position[2]
        charIndex == position[3]
    IN  IF ~HasBlock(blocks, blockIndex)
        THEN Result(blocks, position)
        ELSE LET currentBlock == blocks[blockIndex + 1]
                 currentContent == ContentAt(currentBlock, contentIndex)
             IN  IF currentContent.typeof = "string"
                 THEN LET newContent == Slice(currentContent.text, 0, charIndex)
                                        \o <<char>>
                                        \o SliceFrom(currentContent.text, charIndex)
                      IN  Result([blocks EXCEPT ![blockIndex + 1] =
                                     SetContentAt(currentBlock, contentIndex, newContent)],
                                 <<blockIndex, contentIndex, charIndex + 1>>)
                 ELSE Result(blocks, position)

\* JoinBackward that looks at the current block before the previous one: an
\* empty or line-break current block is removed even after a line-break
JoinBackwardCurrentFirst(blocks, position) ==
    LET blockIndex == position[1]
        contentIndex == position[2]
    IN  IF blockIndex > 0
        THEN IF ~HasBlock(blocks, blockIndex) \/ ~HasBlock(blocks, blockIndex - 1)
             THEN Result(blocks, position)
             ELSE LET currentBlock == blocks[blockIndex + 1]
                      prevBlock == blocks[blockIndex]
                      prevContentIndex == Len(prevBlock.content) - 1
                      prevContent == ContentAt(prevBlock, prevContentIndex)
                      currentContent == ContentAt(currentBlock, contentIndex)
                  IN  IF currentBlock.type = "line-break" \/ isEmptyBlock(currentBlock)
                      THEN Result(SpliceOut(blocks, blockIndex),
                                  <<blockIndex - 1, prevContentIndex,
                                    StringLength(prevContent)>>)
                      ELSE IF prevBlock.type = "line-break"
                      THEN Result(SpliceOut(blocks, blockIndex - 1),
                                  <<blockIndex - 1, 0, 0>>)
                      ELSE IF currentContent.typeof = "string"
                              /\ prevContent.typeof = "string"
                      THEN Result(SpliceOut([blocks EXCEPT ![blockIndex] =
                                      SetContentAt(prevBlock, prevContentIndex,
                                          prevContent.text \o currentContent.text)],
                                      blockIndex),
                                  <<blockIndex - 1, prevContentIndex, Len(prevContent.text)>>)
                      ELSE Result(blocks, position)
        ELSE Result(blocks, position)

\* JoinBackward that puts the cursor at the end of the joined fragment
JoinBackwardCursorAtEnd(blocks, position) ==
    LET blockIndex == position[1]
        contentIndex == position[2]
    IN  IF blockIndex > 0
        THEN IF ~HasBlock(blocks, blockIndex) \/ ~HasBlock(blocks, blockIndex - 1)
             THEN Result(blocks, position)
             ELSE LET currentBlock == blocks[blockIndex + 1]
                      prevBlock == blocks[blockIndex]
                      prevContentIndex == Len(prevBlock.content) - 1
                      prevContent == ContentAt(prevBlock, prevContentIndex)
                      currentContent == ContentAt(currentBlock, contentIndex)
                  IN  IF prevBlock.type = "line-break"
                      THEN Result(SpliceOut(blocks, blockIndex - 1),
                                  <<blockIndex - 1, 0, 0>>)
                      ELSE IF currentBlock.type = "line-break" \/ isEmptyBlock(currentBlock)
                      THEN Result(SpliceOut(blocks, blockIndex),
                                  <<blockIndex - 1, prevContentIndex,
                                    StringLength(prevContent)>>)
                      ELSE IF currentContent.typeof = "string"
                              /\ prevContent.typeof = "string"
                      THEN Result(SpliceOut([blocks EXCEPT ![blockIndex] =
                                      SetContentAt(prevBlock, prevContentIndex,
                                          prevContent.text \o currentContent.text)],
                                      blockIndex),
                                  <<blockIndex - 1, prevContentIndex,
                                    Len(prevContent.text) + Len(currentContent.text)>>)
                      ELSE Result(blocks, position)
        ELSE Result(blocks, position)

\* JoinBackward that also removes an empty or line-break block at the start of
\* a document holding further blocks
JoinBackwardRemovingFirst(blocks, position) ==
    LET blockIndex == position[1]
        contentIndex == position[2]
    IN  IF blockIndex > 0
        THEN IF ~HasBlock(blocks, blockIndex) \/ ~HasBlock(blocks, blockIndex - 1)
             THEN Result(blocks, position)
             ELSE LET currentBlock == blocks[blockIndex + 1]
                      prevBlock == blocks[blockIndex]
                      prevContentIndex == Len(prevBlock.content) - 1
                      prevContent == ContentAt(prevBlock, prevContentIndex)
                      currentContent == ContentAt(currentBlock, contentIndex)
                  IN  IF prevBlock.type = "line-break"
                      THEN Result(SpliceOut(blocks, blockIndex - 1),
                                  <<blockIndex - 1, 0, 0>>)
                      ELSE IF currentBlock.type = "line-break" \/ isEmptyBlock(currentBlock)
                      THEN Result(SpliceOut(blocks, blockIndex),
                                  <<blockIndex - 1, prevContentIndex,
                                    StringLength(prevContent)>>)
                      ELSE IF currentContent.typeof = "string"
                              /\ prevContent.typeof = "string"
                      THEN Result(SpliceOut([blocks EXCEPT ![blockIndex] =
                                      SetContentAt(prevBlock, prevContentIndex,
                                          prevContent.text \o currentContent.text)],
                                      blockIndex),
                                  <<blockIndex - 1, prevContentIndex, Len(prevContent.text)>>)
                      ELSE Result(blocks, position)
        ELSE IF /\ HasBlock(blocks, blockIndex)
                /\ Len(blocks) > 1
                /\ \/ blocks[blockIndex + 1].type = "line-break"
                   \/ isEmptyBlock(blocks[blockIndex + 1])
             THEN Result(SpliceOut(blocks, blockIndex), <<0, 0, 0>>)
             ELSE Result(blocks, position)

\* the join of deleteCharacterBackward appending the fragments of the current
\* block to the content array of the previous block instead of joining the
\* two texts
JoinBackwardAppendingFragments(blocks, position) ==
    LET blockIndex == position[1]
    IN  IF blockIndex > 0 /\ HasBlock(blocks, blockIndex) /\ HasBlock(blocks, blockIndex - 1)
        THEN LET currentBlock == blocks[blockIndex + 1]
                 prevBlock == blocks[blockIndex]
             IN  Result(SpliceOut([blocks EXCEPT ![blockIndex] =
                                     [prevBlock EXCEPT !.content =
                                         prevBlock.content \o currentBlock.content]],
                                  blockIndex),
                        <<blockIndex - 1, Len(prevBlock.content) - 1,
                          StringLength(ContentAt(prevBlock, Len(prevBlock.content) - 1))>>)
        ELSE Result(blocks, position)

\* the part of deleteCharacterBackward after the charIndex > 0 case
JoinBackward(blocks, position) ==
    LET blockIndex == position[1]
        contentIndex == position[2]
    IN  IF blockIndex > 0
        THEN IF ~HasBlock(blocks, blockIndex) \/ ~HasBlock(blocks, blockIndex - 1)
             THEN Result(blocks, position)
             ELSE LET currentBlock == blocks[blockIndex + 1]
                      prevBlock == blocks[blockIndex]
                      prevContentIndex == Len(prevBlock.content) - 1
                      prevContent == ContentAt(prevBlock, prevContentIndex)
                      currentContent == ContentAt(currentBlock, contentIndex)
                  IN  IF prevBlock.type = "line-break"
                      THEN Result(SpliceOut(blocks, blockIndex - 1),
                                  <<blockIndex - 1, 0, 0>>)
                      ELSE IF currentBlock.type = "line-break" \/ isEmptyBlock(currentBlock)
                      THEN Result(SpliceOut(blocks, blockIndex),
                                  <<blockIndex - 1, prevContentIndex,
                                    StringLength(prevContent)>>)
                      ELSE IF currentContent.typeof = "string"
                              /\ prevContent.typeof = "string"
                      THEN Result(SpliceOut([blocks EXCEPT ![blockIndex] =
                                      SetContentAt(prevBlock, prevContentIndex,
                                          prevContent.text \o currentContent.text)],
                                      blockIndex),
                                  <<blockIndex - 1, prevContentIndex, Len(prevContent.text)>>)
                      ELSE Result(blocks, position)
        ELSE Result(blocks, position)

\* deleteCharacterBackward removing the character after the cursor instead of
\* the one before it
deleteCharacterBackwardOffByOne(blocks, position) ==
    LET blockIndex == position[1]
        contentIndex == position[2]
        charIndex == position[3]
    IN  IF charIndex > 0
        THEN IF ~HasBlock(blocks, blockIndex)
             THEN Threw(blocks, position)
             ELSE LET currentBlock == blocks[blockIndex + 1]
                      currentContent == ContentAt(currentBlock, contentIndex)
                  IN  IF currentContent.typeof = "string"
                      THEN LET newContent == Slice(currentContent.text, 0, charIndex)
                                             \o SliceFrom(currentContent.text, charIndex + 1)
                           IN  Result([blocks EXCEPT ![blockIndex + 1] =
                                          SetContentAt(currentBlock, contentIndex, newContent)],
                                      <<blockIndex, contentIndex, charIndex - 1>>)
                      ELSE JoinBackward(blocks, position)
        ELSE JoinBackward(blocks, position)

deleteCharacterBackward(blocks, position) ==
    LET blockIndex == position[1]
        contentIndex == position[2]
        charIndex == position[3]
    IN  IF charIndex > 0
        THEN IF ~HasBlock(blocks, blockIndex)
             THEN Threw(blocks, position)  \* currentBlock.content of undefined
             ELSE LET currentBlock == blocks[blockIndex + 1]
                      currentContent == ContentAt(currentBlock, contentIndex)
                  IN  IF currentContent.typeof = "string"
                      THEN LET newContent == Slice(currentContent.text, 0, charIndex - 1)
                                             \o SliceFrom(currentContent.text, charIndex)
                           IN  Result([blocks EXCEPT ![blockIndex + 1] =
                                          SetContentAt(currentBlock, contentIndex, newContent)],
                                      <<blockIndex, contentIndex, charIndex - 1>>)
                      ELSE JoinBackward(blocks, position)
        ELSE JoinBackward(blocks, position)

\* deleteCharacterForward that, at the end of a fragment, removes the next block
deleteCharacterForwardMerging(blocks, position) ==
    LET blockIndex == position[1]
        contentIndex == position[2]
        charIndex == position[3]
    IN  IF ~HasBlock(blocks, blockIndex)
        THEN Result(blocks, position)
        ELSE LET currentBlock == blocks[blockIndex + 1]
                 currentContent == ContentAt(currentBlock, contentIndex)
             IN  IF currentContent.typeof = "string"
                    /\ charIndex < Len(currentContent.text)
                 THEN LET newContent == Slice(currentContent.text, 0, charIndex)
                                        \o SliceFrom(currentContent.text, charIndex + 1)
                      IN  Result([blocks EXCEPT ![blockIndex + 1] =
                                     SetContentAt(currentBlock, contentIndex, newContent)],
                                 position)
                 ELSE IF HasBlock(blocks, blockIndex + 1)
                 THEN Result(SpliceOut(blocks, blockIndex + 1), position)
                 ELSE Result(blocks, position)

deleteCharacterForward(blocks, position) ==
    LET blockIndex == position[1]
        contentIndex == position[2]
        charIndex == position[3]
    IN  IF ~HasBlock(blocks, blockIndex)
        THEN Result(blocks, position)
        ELSE LET currentBlock == blocks[blockIndex + 1]
                 currentContent == ContentAt(currentBlock, contentIndex)
             IN  IF currentContent.typeof = "string"
                    /\ charIndex < Len(currentContent.text)
                 THEN LET newContent == Slice(currentContent.text, 0, charIndex)
                                        \o SliceFrom(currentContent.text, charIndex + 1)
                      IN  Result([blocks EXCEPT ![blockIndex + 1] =
                                     SetContentAt(currentBlock, contentIndex, newContent)],
                                 position)
                 ELSE Result(blocks, position)

\* createNewBlock giving the new block the type of the current block
createNewBlockSameType(blocks, position, newId) ==
    LET blockIndex == position[1]
        contentIndex == position[2]
        charIndex == position[3]
    IN  IF ~HasBlock(blocks, blockIndex)
        THEN Result(blocks, position)
        ELSE LET currentBlock == blocks[blockIndex + 1]
                 currentContent == ContentAt(currentBlock, contentIndex)
             IN  IF currentContent.typeof # "string"
                 THEN Result(blocks, position)
                 ELSE IF currentBlock.type = "code-block"
                 THEN LET newContent == Slice(currentContent.text, 0, charIndex)
                                        \o <<"\n">>
                                        \o SliceFrom(currentContent.text, charIndex)
                      IN  Result([blocks EXCEPT ![blockIndex + 1] =
                                     SetContentAt(currentBlock, contentIndex, newContent)],
                                 <<blockIndex, contentIndex, charIndex + 1>>)
                 ELSE LET beforeCursor == Slice(currentContent.text, 0, charIndex)
                          afterCursor == SliceFrom(currentContent.text, charIndex)
                          emptied ==
                              IF isEmptyBlock(currentBlock)
                                 /\ beforeCursor = <<>> /\ afterCursor = <<>>
                              THEN [currentBlock EXCEPT !.type = "line-break",
                                                        !.content = <<Str(<<>>)>>]
                              ELSE SetContentAt(currentBlock, contentIndex, beforeCursor)
                          newBlock == [createEmptyParagraph(newId) EXCEPT
                                          !.type = currentBlock.type,
                                          !.content = <<Str(afterCursor)>>]
                      IN  Result(SpliceIn([blocks EXCEPT ![blockIndex + 1] = emptied],
                                          blockIndex + 1, newBlock),
                                 <<blockIndex + 1, 0, 0>>)

\* createNewBlock retyping every empty block, also one holding whitespace
createNewBlockRetypingBlank(blocks, position, newId) ==
    LET blockIndex == position[1]
        contentIndex == position[2]
        charIndex == position[3]
    IN  IF ~HasBlock(blocks, blockIndex)
        THEN Result(blocks, position)
        ELSE LET currentBlock == blocks[blockIndex + 1]
                 currentContent == ContentAt(currentBlock, contentIndex)
             IN  IF currentContent.typeof # "string"
                 THEN Result(blocks, position)
                 ELSE IF currentBlock.type = "code-block"
                 THEN LET newContent == Slice(currentContent.text, 0, charIndex)
                                        \o <<"\n">>
                                        \o SliceFrom(currentContent.text, charIndex)
                      IN  Result([blocks EXCEPT ![blockIndex + 1] =
                                     SetContentAt(currentBlock, contentIndex, newContent)],
                                 <<blockIndex, contentIndex, charIndex + 1>>)
                 ELSE LET beforeCursor == Slice(currentContent.text, 0, charIndex)
                          afterCursor == SliceFrom(currentContent.text, charIndex)
                          emptied ==
                              IF isEmptyBlock(currentBlock)
                              THEN [currentBlock EXCEPT !.type = "line-break",
                                                        !.content = <<Str(<<>>)>>]
                              ELSE SetContentAt(currentBlock, contentIndex, beforeCursor)
                          newBlock == [createEmptyParagraph(newId) EXCEPT
                                          !.content = <<Str(afterCursor)>>]
                      IN  Result(SpliceIn([blocks EXCEPT ![blockIndex + 1] = emptied],
                                          blockIndex + 1, newBlock),
                                 <<blockIndex + 1, 0, 0>>)

\* createNewBlock splitting a code-block that holds text like any other block
createNewBlockSplittingCode(blocks, position, newId) ==
    LET blockIndex == position[1]
        contentIndex == position[2]
        charIndex == position[3]
    IN  IF ~HasBlock(blocks, blockIndex)
        THEN Result(blocks, position)
        ELSE LET currentBlock == blocks[blockIndex + 1]
                 currentContent == ContentAt(currentBlock, contentIndex)
             IN  IF currentContent.typeof # "string"
                 THEN Result(blocks, position)
                 ELSE IF currentBlock.type = "code-block" /\ currentContent.text = <<>>
                 THEN LET newContent == Slice(currentContent.text, 0, charIndex)
                                        \o <<"\n">>
                                        \o SliceFrom(currentContent.text, charIndex)
                      IN  Result([blocks EXCEPT ![blockIndex + 1] =
                                     SetContentAt(currentBlock, contentIndex, newContent)],
                                 <<blockIndex, contentIndex, charIndex + 1>>)
                 ELSE LET beforeCursor == Slice(currentContent.text, 0, charIndex)
                          afterCursor == SliceFrom(currentContent.text, charIndex)
                          emptied ==
                              IF isEmptyBlock(currentBlock)
                                 /\ beforeCursor = <<>> /\ afterCursor = <<>>
                              THEN [currentBlock EXCEPT !.type = "line-break",
                                                        !.content = <<Str(<<>>)>>]
                              ELSE SetContentAt(currentBlock, contentIndex, beforeCursor)
                          newBlock == [createEmptyParagraph(newId) EXCEPT
                                          !.content = <<Str(afterCursor)>>]
                      IN  Result(SpliceIn([blocks EXCEPT ![blockIndex + 1] = emptied],
                                          blockIndex + 1, newBlock),
                                 <<blockIndex + 1, 0, 0>>)

\* createNewBlock, with newId the id createEmptyParagraph draws when it is called
createNewBlock(blocks, position, newId) ==
    LET blockIndex == position[1]
        contentIndex == position[2]
        charIndex == position[3]
    IN  IF ~HasBlock(blocks, blockIndex)
        THEN Result(blocks, position)
        ELSE LET currentBlock == blocks[blockIndex + 1]
                 currentContent == ContentAt(currentBlock, contentIndex)
             IN  IF currentContent.typeof # "string"
                 THEN Result(blocks, position)
                 ELSE IF currentBlock.type = "code-block"
                 THEN LET newContent == Slice(currentContent.text, 0, charIndex)
                                        \o <<"\n">>
                                        \o SliceFrom(currentContent.text, charIndex)
                      IN  Result([blocks EXCEPT ![blockIndex + 1] =
                                     SetContentAt(currentBlock, contentIndex, newContent)],
                                 <<blockIndex, contentIndex, charIndex + 1>>)
                 ELSE LET beforeCursor == Slice(currentContent.text, 0, charIndex)
                          afterCursor == SliceFrom(currentContent.text, charIndex)
                          emptied ==
                              IF isEmptyBlock(currentBlock)
                                 /\ beforeCursor = <<>> /\ afterCursor = <<>>
                              THEN [currentBlock EXCEPT !.type = "line-break",
                                                        !.content = <<Str(<<>>)>>]
                              ELSE SetContentAt(currentBlock, contentIndex, beforeCursor)
                          newBlock == [createEmptyParagraph(newId) EXCEPT
                                          !.content = <<Str(afterCursor)>>]
                      IN  Result(SpliceIn([blocks EXCEPT ![blockIndex + 1] = emptied],
                                          blockIndex + 1, newBlock),
                                 <<blockIndex + 1, 0, 0>>)

\* the assignment arr[i] = x of JavaScript: an index past the end extends the
\* array, leaving undefined elements in between
AssignAt(arr, i, x) ==
    IF i < 0 THEN arr
    ELSE [k \in 1..Max(Len(arr), i + 1) |->
             IF k = i + 1 THEN x
             ELSE IF k \in DOMAIN arr THEN arr[k]
             ELSE Undefined]

\* setBlockContent: returns the blocks only
setBlockContent(blocks, position, newContent) ==
    LET blockIndex == position[1]
        contentIndex == position[2]
    IN  IF ~HasBlock(blocks, blockIndex)
        THEN blocks
        ELSE [blocks EXCEPT ![blockIndex + 1].content =
                 AssignAt(@, contentIndex, Str(newContent))]

----------------------------------------------------------------------------
(* Block converter  (editor/blockConverter.ts) *)

\* convertBlockTo dropping the attrs the block had
convertBlockToReplacingAttrs(blocks, position, newType, newContent, newAttrs) ==
    LET blockIndex == position[1]
    IN  IF ~HasBlock(blocks, blockIndex)
        THEN Result(blocks, position)
        ELSE LET currentBlock == blocks[blockIndex + 1]
                 firstContent == IF newContent = <<>> THEN Undefined ELSE newContent[1]
             IN  Result([blocks EXCEPT ![blockIndex + 1] =
                            [currentBlock EXCEPT
                                !.type = newType,
                                !.content = newContent,
                                !.attrs = newAttrs]],
                        <<blockIndex, 0, StringLength(firstContent)>>)

\* convertBlockTo: retypes the addressed block in place
convertBlockTo(blocks, position, newType, newContent, newAttrs) ==
    LET blockIndex == position[1]
    IN  IF ~HasBlock(blocks, blockIndex)
        THEN Result(blocks, position)
        ELSE LET currentBlock == blocks[blockIndex + 1]
                 firstContent == IF newContent = <<>> THEN Undefined ELSE newContent[1]
             IN  Result([blocks EXCEPT ![blockIndex + 1] =
                            [currentBlock EXCEPT
                                !.type = newType,
                                !.content = newContent,
                                !.attrs = MergeAttrs(currentBlock.attrs, newAttrs)]],
                        <<blockIndex, 0, StringLength(firstContent)>>)

Digits == {"0", "1", "2", "3", "4", "5", "6", "7", "8", "9"}

\* the number of leading characters of s that are in set
RECURSIVE LeadingCount(_, _)
LeadingCount(s, set) ==
    IF s # <<>> /\ Head(s) \in set THEN 1 + LeadingCount(Tail(s), set) ELSE 0

\* s matches the pattern tail "any characters, then the end of the string":
\* it holds no line terminator
DotStar(s) == \A i \in DOMAIN s : s[i] \notin LineTerminators

NoMatch == [matched |-> FALSE, group1 |-> <<>>, group2 |-> <<>>]

Match(g1, g2) == [matched |-> TRUE, group1 |-> g1, group2 |-> g2]

\* the heading pattern: one to six '#', one whitespace character, the rest
HeadingMatch(text) ==
    LET k == LeadingCount(text, {"#"})
    IN  IF /\ k >= 1 /\ k <= 6
           /\ Len(text) > k
           /\ text[k + 1] \in WhiteSpace
           /\ DotStar(SliceFrom(text, k + 1))
        THEN Match(Slice(text, 0, k), SliceFrom(text, k + 1))
        ELSE NoMatch

\* the unordered list pattern: '-', '*' or '+', one whitespace character, the rest
UnorderedListMatch(text) ==
    IF /\ Len(text) >= 2
       /\ text[1] \in {"-", "*", "+"}
       /\ text[2] \in WhiteSpace
       /\ DotStar(SliceFrom(text, 2))
    THEN Match(SliceFrom(text, 2), <<>>)
    ELSE NoMatch

\* the ordered list pattern: digits, '.', one whitespace character, the rest
OrderedListMatch(text) ==
    LET d == LeadingCount(text, Digits)
    IN  IF /\ d >= 1
           /\ Len(text) >= d + 2
           /\ text[d + 1] = "."
           /\ text[d + 2] \in WhiteSpace
           /\ DotStar(SliceFrom(text, d + 2))
        THEN Match(SliceFrom(text, d + 2), <<>>)
        ELSE NoMatch

\* the quote pattern: '>', one whitespace character, the rest
QuoteMatch(text) ==
    IF /\ Len(text) >= 2
       /\ text[1] = ">"
       /\ text[2] \in WhiteSpace
       /\ DotStar(SliceFrom(text, 2))
    THEN Match(SliceFrom(text, 2), <<>>)
    ELSE NoMatch

\* the code fence pattern: three backticks, the rest
CodeBlockMatch(text) ==
    IF /\ Len(text) >= 3
       /\ Slice(text, 0, 3) = <<Backtick, Backtick, Backtick>>
       /\ DotStar(SliceFrom(text, 3))
    THEN Match(SliceFrom(text, 3), <<>>)
    ELSE NoMatch

\* what tryAutoConvertMarkdown yields: { blocks, newPosition, converted }
Converted(result) ==
    [blocks |-> result.blocks, newPosition |-> result.newPosition, converted |-> TRUE]

NotConverted(blocks, position) ==
    [blocks |-> blocks, newPosition |-> position, converted |-> FALSE]

\* tryAutoConvertMarkdown converting a block of any type
tryAutoConvertAnyBlock(blocks, position, text) ==
    LET blockIndex == position[1]
    IN  IF ~HasBlock(blocks, blockIndex)
        THEN NotConverted(blocks, position)
        ELSE IF HeadingMatch(text).matched
        THEN Converted(convertBlockTo(blocks, position, "heading",
                 <<Str(HeadingMatch(text).group2)>>,
                 Attr("level", DigitString(Len(HeadingMatch(text).group1)))))
        ELSE IF UnorderedListMatch(text).matched
        THEN Converted(convertBlockTo(blocks, position, "list-item",
                 <<Str(UnorderedListMatch(text).group1)>>, Attr("listType", Unordered)))
        ELSE IF OrderedListMatch(text).matched
        THEN Converted(convertBlockTo(blocks, position, "list-item",
                 <<Str(OrderedListMatch(text).group1)>>, Attr("listType", Ordered)))
        ELSE IF QuoteMatch(text).matched
        THEN Converted(convertBlockTo(blocks, position, "quote",
                 <<Str(QuoteMatch(text).group1)>>, NoAttrs))
        ELSE IF CodeBlockMatch(text).matched
        THEN Converted(convertBlockTo(blocks, position, "code-block",
                 <<Str(<<>>)>>, Attr("language", Trim(CodeBlockMatch(text).group1))))
        ELSE NotConverted(blocks, position)

tryAutoConvertMarkdown(blocks, position, text) ==
    LET blockIndex == position[1]
    IN  IF ~HasBlock(blocks, blockIndex)
        THEN NotConverted(blocks, position)
        ELSE IF blocks[blockIndex + 1].type # "paragraph"
        THEN NotConverted(blocks, position)
        ELSE IF HeadingMatch(text).matched
        THEN Converted(convertBlockTo(blocks, position, "heading",
                 <<Str(HeadingMatch(text).group2)>>,
                 Attr("level", DigitString(Len(HeadingMatch(text).group1)))))
        ELSE IF UnorderedListMatch(text).matched
        THEN Converted(convertBlockTo(blocks, position, "list-item",
                 <<Str(UnorderedListMatch(text).group1)>>, Attr("listType", Unordered)))
        ELSE IF OrderedListMatch(text).matched
        THEN Converted(convertBlockTo(blocks, position, "list-item",
                 <<Str(OrderedListMatch(text).group1)>>, Attr("listType", Ordered)))
        ELSE IF QuoteMatch(text).matched
        THEN Converted(convertBlockTo(blocks, position, "quote",
                 <<Str(QuoteMatch(text).group1)>>, NoAttrs))
        ELSE IF CodeBlockMatch(text).matched
        THEN Converted(convertBlockTo(blocks, position, "code-block",
                 <<Str(<<>>)>>, Attr("language", Trim(CodeBlockMatch(text).group1))))
        ELSE NotConverted(blocks, position)

----------------------------------------------------------------------------
(* Markdown serializer  (utils/markdownConverter.ts) *)

\* the value of the leading decimal digits of s (parseInt), for up to two digits
DigitValue(c) ==
    CASE c = "0" -> 0 [] c = "1" -> 1 [] c = "2" -> 2 [] c = "3" -> 3
      [] c = "4" -> 4 [] c = "5" -> 5 [] c = "6" -> 6 [] c = "7" -> 7
      [] c = "8" -> 8 [] OTHER -> 9

RECURSIVE DecimalValue(_)
DecimalValue(s) ==
    IF s = <<>> THEN 0
    ELSE 10 * DecimalValue(SubSeq(s, 1, Len(s) - 1)) + DigitValue(s[Len(s)])

\* String.prototype.repeat
RECURSIVE Repeat(_, _)
Repeat(s, n) == IF n <= 0 THEN <<>> ELSE s \o Repeat(s, n - 1)

\* block.attrs[key] || fallback
AttrOr(block, key, fallback) ==
    IF key \in DOMAIN block.attrs /\ block.attrs[key] # <<>>
    THEN block.attrs[key]
    ELSE fallback

\* '#'.repeat(Math.max(1, Math.min(6, parseInt(level)))); parseInt of a string
\* without leading digits is NaN, and repeat(NaN) is ''
Hashes(level) ==
    LET d == LeadingCount(level, Digits)
    IN  IF d = 0
        THEN <<>>
        ELSE Repeat(<<"#">>, Max(1, Min(6, DecimalValue(Slice(level, 0, d)))))

RECURSIVE blockToMarkdown(_)
RECURSIVE contentToMarkdown(_)
contentToMarkdown(blockContent) ==
    IF blockContent = <<>>
    THEN <<>>
    ELSE (IF Head(blockContent).typeof = "string"
          THEN Head(blockContent).text
          ELSE blockToMarkdown(Head(blockContent).block[1]))
         \o contentToMarkdown(Tail(blockContent))

blockToMarkdown(block) ==
    LET c == contentToMarkdown(block.content)
        fence == <<Backtick, Backtick, Backtick>>
    IN  CASE block.type = "paragraph" -> c
          [] block.type = "heading" ->
                Hashes(AttrOr(block, "level", <<"1">>)) \o <<" ">> \o c
          [] block.type = "bold" -> <<"*", "*">> \o c \o <<"*", "*">>
          [] block.type = "italic" -> <<"*">> \o c \o <<"*">>
          [] block.type = "code" -> <<Backtick>> \o c \o <<Backtick>>
          [] block.type = "code-block" ->
                fence \o AttrOr(block, "language", <<>>) \o <<"\n">> \o c
                      \o <<"\n">> \o fence
          [] block.type = "link" ->
                <<"[">> \o c \o <<"]", "(">> \o AttrOr(block, "href", <<>>) \o <<")">>
          [] block.type = "image" ->
                <<"!", "[">> \o AttrOr(block, "alt", c) \o <<"]", "(">>
                             \o AttrOr(block, "src", <<>>) \o <<")">>
          [] block.type = "list-item" -> <<"-", " ">> \o c
          [] block.type = "quote" -> <<">", " ">> \o c
          [] block.type = "line-break" -> <<>>
          [] OTHER -> c

\* blocks.map(blockToMarkdown).join('\n')
RECURSIVE blocksToMarkdown(_)
blocksToMarkdown(blocks) ==
    IF blocks = <<>> THEN <<>>
    ELSE IF Len(blocks) = 1 THEN blockToMarkdown(blocks[1])
    ELSE blockToMarkdown(Head(blocks)) \o <<"\n">> \o blocksToMarkdown(Tail(blocks))

\* String.prototype.split('\n')
RECURSIVE SplitLines(_)
SplitLines(s) ==
    LET n == LeadingCount(s, {c \in {s[i] : i \in DOMAIN s} : c # "\n"})
    IN  IF n = Len(s)
        THEN <<s>>
        ELSE <<Slice(s, 0, n)>> \o SplitLines(SliceFrom(s, n + 1))

\* String.prototype.startsWith
StartsWith(s, prefix) == Slice(s, 0, Len(prefix)) = prefix

\* trimmed.match of the header pattern of parseMarkdownLine: one to six '#',
\* one or more whitespace characters, one or more other characters
HeaderMatch(trimmed) ==
    LET k == LeadingCount(trimmed, {"#"})
        w == LeadingCount(SliceFrom(trimmed, k), WhiteSpace)
        rest == SliceFrom(trimmed, k + w)
    IN  IF k >= 1 /\ k <= 6 /\ w >= 1 /\ rest # <<>> /\ DotStar(rest)
        THEN Match(Slice(trimmed, 0, k), rest)
        ELSE IF k >= 1 /\ k <= 6 /\ w >= 2 /\ rest = <<>>
                /\ DotStar(SliceFrom(trimmed, k + w - 1))
        THEN Match(Slice(trimmed, 0, k), SliceFrom(trimmed, k + w - 1))
        ELSE NoMatch

\* the id parseMarkdownLine gives the block of line number n: the string block-n
LineId(n) == <<"block", n>>

parseMarkdownLine(line, id) ==
    LET trimmed == Trim(line)
    IN  IF trimmed = <<>>
        THEN [id |-> LineId(id), type |-> "line-break",
              content |-> <<Str(<<>>)>>, attrs |-> NoAttrs]
        ELSE IF HeaderMatch(trimmed).matched
        THEN [id |-> LineId(id), type |-> "heading",
              content |-> <<Str(HeaderMatch(trimmed).group2)>>,
              attrs |-> Attr("level", DigitString(Len(HeaderMatch(trimmed).group1)))]
        ELSE IF StartsWith(trimmed, <<Backtick, Backtick, Backtick>>)
        THEN [id |-> LineId(id), type |-> "code-block",
              content |-> <<Str(<<>>)>>,
              attrs |-> Attr("language", Trim(SliceFrom(trimmed, 3)))]
        ELSE IF StartsWith(trimmed, <<"-", " ">>) \/ StartsWith(trimmed, <<"*", " ">>)
        THEN [id |-> LineId(id), type |-> "list-item",
              content |-> <<Str(SliceFrom(trimmed, 2))>>, attrs |-> NoAttrs]
        ELSE IF StartsWith(trimmed, <<">", " ">>)
        THEN [id |-> LineId(id), type |-> "quote",
              content |-> <<Str(SliceFrom(trimmed, 2))>>, attrs |-> NoAttrs]
        ELSE [id |-> LineId(id), type |-> "paragraph",
              content |-> <<Str(trimmed)>>, attrs |-> NoAttrs]

\* the isEmpty test of consolidateEmptyBlocks
IsEmptyForConsolidation(block) ==
    \/ block.type = "line-break"
    \/ /\ block.type = "paragraph"
       /\ \/ block.content = <<>>
          \/ block.content[1].typeof = "string" /\ block.content[1].text = <<>>

\* the loop of consolidateEmptyBlocks skipping no block
ConsolidateFromKeepingAll(blocks, lastWasEmpty) == blocks

\* the loop of consolidateEmptyBlocks over blocks, from the flag lastWasEmpty
RECURSIVE ConsolidateFrom(_, _)
ConsolidateFrom(blocks, lastWasEmpty) ==
    IF blocks = <<>>
    THEN <<>>
    ELSE LET isEmpty == IsEmptyForConsolidation(Head(blocks))
         IN  IF isEmpty /\ lastWasEmpty
             THEN ConsolidateFrom(Tail(blocks), lastWasEmpty)
             ELSE <<Head(blocks)>> \o ConsolidateFrom(Tail(blocks), isEmpty)

consolidateEmptyBlocks(blocks) ==
    LET result == ConsolidateFrom(blocks, FALSE)
    IN  IF result = <<>>
        THEN <<[id |-> LineId(0), type |-> "paragraph",
                content |-> <<Str(<<>>)>>, attrs |-> NoAttrs]>>
        ELSE result

markdownToBlocks(markdown) ==
    LET lines == SplitLines(markdown)
    IN  consolidateEmptyBlocks(
            [i \in DOMAIN lines |-> parseMarkdownLine(lines[i], i - 1)])

----------------------------------------------------------------------------
(* The Writer  (editor/Writer.ts) *)

\* the printable keys pressed
KeyChars == {"a", " ", "#"}

\* the characters typed into the plain-text view
PlainChars == {"a", "\n"}

RECURSIVE SeqsUpTo(_, _)
\* the sequences over set of length at most n
SeqsUpTo(set, n) ==
    IF n = 0 THEN {<<>>}
    ELSE LET shorter == SeqsUpTo(set, n - 1)
         IN  shorter \cup {Append(s, c) : s \in shorter, c \in set}

RECURSIVE ContentChars(_)
\* the number of characters in the text fragments of a content array
ContentChars(blockContent) ==
    IF blockContent = <<>> THEN 0
    ELSE StringLength(Head(blockContent)) + ContentChars(Tail(blockContent))

RECURSIVE TotalChars(_)
\* the number of characters in the text fragments of a document
TotalChars(blocks) ==
    IF blocks = <<>> THEN 0
    ELSE ContentChars(Head(blocks).content) + TotalChars(Tail(blocks))

\* the size of a document: its blocks plus its characters
DocSize(blocks) == Len(blocks) + TotalChars(blocks)

\* key events grow a document only up to size MaxSize
WithinBounds(before, after) ==
    DocSize(after) > DocSize(before) => DocSize(after) <= MaxSize

\* key events advance the character index only up to MaxSize (a pointer left
\* behind by a document replacement can otherwise advance without end)
IndexWithinBounds(before, after) ==
    after[3] > before[3] => after[3] <= MaxSize

NoInput == [blocks |-> <<>>, position |-> <<0, 0, 0>>]

\* the Writer after its constructor: initializeWithEmptyParagraph
Init ==
    /\ \E id \in BlockIds : content = <<createEmptyParagraph(id)>>
    /\ pointer = <<0, 0, 0>>
    /\ threw = FALSE
    /\ mode = "rendered"
    /\ plainText = <<>>
    /\ input = NoInput
    /\ ops = <<>>

\* checkAndConvertEmptySpecialBlocks
checkAndConvertEmptySpecialBlocks(blocks, position) ==
    LET blockIndex == position[1]
    IN  IF ~HasBlock(blocks, blockIndex)
        THEN Result(blocks, position)
        ELSE LET currentBlock == blocks[blockIndex + 1]
                 isEmpty ==
                     \/ Len(currentBlock.content) = 0
                     \/ /\ Len(currentBlock.content) = 1
                        /\ currentBlock.content[1].typeof = "string"
                        /\ Trim(currentBlock.content[1].text) = <<>>
             IN  IF isEmpty /\ currentBlock.type \in
                                 {"heading", "list-item", "quote", "code-block"}
                 THEN Result([blocks EXCEPT ![blockIndex + 1] =
                                 [currentBlock EXCEPT !.type = "paragraph",
                                                      !.content = <<Str(<<>>)>>,
                                                      !.attrs = NoAttrs]],
                             <<blockIndex, 0, 0>>)
                 ELSE Result(blocks, position)

\* handleBackspace without the call of checkAndConvertEmptySpecialBlocks
handleBackspaceUnchecked(blocks, position) ==
    deleteCharacterBackward(blocks, position)

\* handleBackspace
handleBackspace(blocks, position) ==
    LET result == deleteCharacterBackward(blocks, position)
    IN  IF result.threw
        THEN result
        ELSE checkAndConvertEmptySpecialBlocks(result.blocks, result.newPosition)

\* handleDelete
handleDelete(blocks, position) ==
    LET result == deleteCharacterForward(blocks, position)
    IN  checkAndConvertEmptySpecialBlocks(result.blocks, result.newPosition)

\* handleCharacterInput that stores the converted blocks but keeps the cursor
\* insertCharacter returned
handleCharacterInputKeepingPointer(blocks, position, char) ==
    LET insertResult == insertCharacter(blocks, position, char)
        newBlocks == insertResult.blocks
        newPointer == insertResult.newPosition
        conversionResult ==
            tryAutoConvertMarkdown(newBlocks, newPointer,
                                   getCurrentContent(newBlocks, newPointer))
    IN  IF /\ char = " "
           /\ HasBlock(newBlocks, newPointer[1])
           /\ newBlocks[newPointer[1] + 1].type = "paragraph"
           /\ conversionResult.converted
        THEN Result(conversionResult.blocks, newPointer)
        ELSE insertResult

\* handleCharacterInput
handleCharacterInput(blocks, position, char) ==
    LET insertResult == insertCharacter(blocks, position, char)
        newBlocks == insertResult.blocks
        newPointer == insertResult.newPosition
        conversionResult ==
            tryAutoConvertMarkdown(newBlocks, newPointer,
                                   getCurrentContent(newBlocks, newPointer))
    IN  IF /\ char = " "
           /\ HasBlock(newBlocks, newPointer[1])
           /\ newBlocks[newPointer[1] + 1].type = "paragraph"
           /\ conversionResult.converted
        THEN Result(conversionResult.blocks, conversionResult.newPosition)
        ELSE insertResult

\* a key handler that returned { blocks, newPosition } or threw: the Writer
\* stores the pair; a TypeError leaves the handler before any assignment
Store(result) ==
    /\ WithinBounds(content, result.blocks)
    /\ IndexWithinBounds(pointer, result.newPosition)
    /\ threw' = result.threw
    /\ content' = IF result.threw THEN content ELSE result.blocks
    /\ pointer' = IF result.threw THEN pointer ELSE result.newPosition
    /\ UNCHANGED <<mode, plainText, input, ops>>

\* an arrow key handler: the Writer stores the position the navigator returned
StoreMove(moved) ==
    /\ IndexWithinBounds(pointer, moved.newPosition)
    /\ threw' = moved.threw
    /\ pointer' = IF moved.threw THEN pointer ELSE moved.newPosition
    /\ UNCHANGED <<content, mode, plainText, input, ops>>

\* onPressKey for a printable character
PressCharacter ==
    /\ mode = "rendered"
    /\ \E char \in KeyChars : Store(handleCharacterInput(content, pointer, char))

\* onPressKey for Enter: handleEnter
PressEnter ==
    /\ mode = "rendered"
    /\ \E id \in BlockIds : Store(createNewBlock(content, pointer, id))

\* onPressKey for Backspace
PressBackspace ==
    /\ mode = "rendered"
    /\ Store(handleBackspace(content, pointer))

\* onPressKey for Delete
PressDelete ==
    /\ mode = "rendered"
    /\ Store(handleDelete(content, pointer))

\* onPressKey for ArrowLeft: handleArrowLeft
PressArrowLeft ==
    /\ mode = "rendered"
    /\ StoreMove(moveCursorLeft(content, pointer))

\* onPressKey for ArrowRight: handleArrowRight
PressArrowRight ==
    /\ mode = "rendered"
    /\ StoreMove(moveCursorRight(content, pointer))

\* onPressKey for ArrowUp: handleArrowUp
PressArrowUp ==
    /\ mode = "rendered"
    /\ StoreMove(moveCursorUp(content, pointer))

\* onPressKey for ArrowDown: handleArrowDown
PressArrowDown ==
    /\ mode = "rendered"
    /\ StoreMove(moveCursorDown(content, pointer))

\* the editing key events of the rendered view
NextKeys ==
    \/ PressCharacter
    \/ PressEnter
    \/ PressBackspace
    \/ PressDelete
    \/ PressArrowLeft
    \/ PressArrowRight
    \/ PressArrowUp
    \/ PressArrowDown

\* the Writer under editing key events only
SpecKeys == Init /\ [][NextKeys]_vars

----------------------------------------------------------------------------
(* View switching  (ui/ViewManager.ts, ui/PlainTextEditor.ts, Writer.ts) *)

\* the texts the user leaves in the plain-text view after an edit
PlainTexts == SeqsUpTo(PlainChars, MaxPlainLen)

\* ViewManager.toggleView from the rendered view, then handleViewChange('plain'):
\* the plain-text editor is given the markdown of the document
ToggleToPlain ==
    /\ mode = "rendered"
    /\ DocSize(content) <= MaxViewSize
    /\ mode' = "plain"
    /\ plainText' = blocksToMarkdown(content)
    /\ threw' = FALSE
    /\ UNCHANGED <<content, pointer, input, ops>>

\* ViewManager.toggleView from the plain view, then handleViewChange('rendered'):
\* a non-blank text replaces the document; the pointer is not assigned.
\* The editor keeps its text, which setContent overwrites on the next switch
\* to the plain view before anything reads it: the model drops it here.
ToggleToRendered ==
    /\ mode = "plain"
    /\ mode' = "rendered"
    /\ content' = IF Trim(plainText) # <<>> THEN markdownToBlocks(plainText) ELSE content
    /\ plainText' = <<>>
    /\ threw' = FALSE
    /\ UNCHANGED <<pointer, input, ops>>

\* an input event of the plain-text editor: handleContentChange, then
\* handlePlainTextChange with the editor's new text; the pointer is not assigned
PlainTextInput ==
    /\ mode = "plain"
    /\ \E markdown \in PlainTexts :
          /\ markdown # plainText
          /\ plainText' = markdown
          /\ content' = markdownToBlocks(markdown)
    /\ threw' = FALSE
    /\ UNCHANGED <<pointer, mode, input, ops>>

Next ==
    \/ PressCharacter
    \/ PressEnter
    \/ PressBackspace
    \/ PressDelete
    \/ PressArrowLeft
    \/ PressArrowRight
    \/ PressArrowUp
    \/ PressArrowDown
    \/ ToggleToPlain
    \/ ToggleToRendered
    \/ PlainTextInput

\* the Writer under key events, view switches and plain-text edits
Spec == Init /\ [][Next]_vars

----------------------------------------------------------------------------
(* The functions called directly, on documents and positions of any shape *)

\* the characters of the input documents
InputChars == {"a", " "}

InputTexts == SeqsUpTo(InputChars, MaxLen)

\* the top-level block types of the input documents
InputTypes == {"paragraph", "code-block", "line-break"}

\* a nested inline block
Bold == [id |-> <<"inline", 0>>, type |-> "bold",
         content |-> <<Str(<<"a">>)>>, attrs |-> NoAttrs]

\* content arrays: none, one fragment, one nested block, or a nested block and
\* a fragment
InputContents ==
    {<<>>}
        \cup {<<Str(t)>> : t \in InputTexts}
        \cup {<<Nested(Bold)>>}
        \cup {<<Nested(Bold), Str(t)>> : t \in InputTexts}

InputBlocks ==
    {[id |-> <<"input", 0>>, type |-> ty, content |-> c, attrs |-> NoAttrs] :
        ty \in InputTypes, c \in InputContents}

\* the blocks of a document carry the ids input-0, input-1, ...
Numbered(blocks) ==
    [i \in DOMAIN blocks |-> [blocks[i] EXCEPT !.id = <<"input", i - 1>>]]

\* documents of one to MaxDocBlocks blocks holding at most MaxLen characters
InputDocs ==
    {Numbered(d) : d \in
        {d \in UNION {[1..n -> InputBlocks] : n \in 1..MaxDocBlocks} :
            TotalChars(d) <= MaxLen}}

\* positions inside and outside the document
InputPositions(blocks) ==
    (-1 .. Len(blocks) + 1) \X (0 .. 1) \X (0 .. MaxLen + 1)

\* a call sequence starts from any document and any position
InitCalls ==
    /\ content \in InputDocs
    /\ pointer \in InputPositions(content)
    /\ input = [blocks |-> content, position |-> pointer]
    /\ ops = <<>>
    /\ threw = FALSE
    /\ mode = "rendered"
    /\ plainText = <<>>

\* one more call of the function called name, which returned result or threw
Called(name, result) ==
    /\ ~threw
    /\ Len(ops) < MaxOps
    /\ ops' = Append(ops, name)
    /\ threw' = result.threw
    /\ content' = IF result.threw THEN content ELSE result.blocks
    /\ pointer' = IF result.threw THEN pointer ELSE result.newPosition
    /\ UNCHANGED <<mode, plainText, input>>

CallMoveCursorLeft ==
    LET moved == moveCursorLeft(content, pointer)
    IN  Called("moveCursorLeft",
               [blocks |-> content, newPosition |-> moved.newPosition,
                threw |-> moved.threw])

CallMoveCursorRight ==
    LET moved == moveCursorRight(content, pointer)
    IN  Called("moveCursorRight",
               [blocks |-> content, newPosition |-> moved.newPosition,
                threw |-> moved.threw])

CallMoveCursorUp ==
    LET moved == moveCursorUp(content, pointer)
    IN  Called("moveCursorUp",
               [blocks |-> content, newPosition |-> moved.newPosition,
                threw |-> moved.threw])

CallMoveCursorDown ==
    LET moved == moveCursorDown(content, pointer)
    IN  Called("moveCursorDown",
               [blocks |-> content, newPosition |-> moved.newPosition,
                threw |-> moved.threw])

NextNav ==
    \/ CallMoveCursorLeft
    \/ CallMoveCursorRight
    \/ CallMoveCursorUp
    \/ CallMoveCursorDown

\* sequences of navigator calls on any document
SpecNav == InitCalls /\ [][NextNav]_vars

\* the texts handed to tryAutoConvertMarkdown
TriggerTexts == {<<"#", " ", "a">>, <<"a", " ">>}

CallInsertCharacter ==
    \E char \in InputChars :
        Called("insertCharacter", insertCharacter(content, pointer, char))

CallDeleteCharacterBackward ==
    Called("deleteCharacterBackward", deleteCharacterBackward(content, pointer))

CallDeleteCharacterForward ==
    Called("deleteCharacterForward", deleteCharacterForward(content, pointer))

CallCreateNewBlock ==
    \E id \in BlockIds :
        Called("createNewBlock", createNewBlock(content, pointer, id))

CallSetBlockContent ==
    Called("setBlockContent",
           Result(setBlockContent(content, pointer, <<"a">>), pointer))

CallConvertBlockTo ==
    \E newContent \in {<<Str(<<"a">>)>>, <<Nested(Bold)>>} :
        Called("convertBlockTo",
               convertBlockTo(content, pointer, "heading", newContent,
                              Attr("level", <<"1">>)))

CallTryAutoConvertMarkdown ==
    \E text \in TriggerTexts :
        LET r == tryAutoConvertMarkdown(content, pointer, text)
        IN  Called("tryAutoConvertMarkdown", Result(r.blocks, r.newPosition))

NextCalls ==
    \/ CallInsertCharacter
    \/ CallDeleteCharacterBackward
    \/ CallDeleteCharacterForward
    \/ CallCreateNewBlock
    \/ CallSetBlockContent
    \/ CallConvertBlockTo
    \/ CallTryAutoConvertMarkdown

\* sequences of text and conversion calls on any document
SpecCalls == InitCalls /\ [][NextCalls]_vars

----------------------------------------------------------------------------
(* Typing into one block, remembering the last key event *)

\* the printable keys typed: the markdown triggers and the space
TypedChars == {"#", "-", ">", " "}

\* the Writer with the cursor in an empty paragraph, alone or after a paragraph
InitTyping ==
    /\ content \in {<<createEmptyParagraph(<<"random", 1>>)>>,
                    <<createBlock(<<"random", 1>>, "paragraph", <<Str(<<"a">>)>>, NoAttrs),
                      createEmptyParagraph(<<"random", 2>>)>>}
    /\ pointer = <<Len(content) - 1, 0, 0>>
    /\ threw = FALSE
    /\ mode = "rendered"
    /\ plainText = <<>>
    /\ input = NoInput
    /\ ops = <<>>

\* onPressKey stores what the handler of key returned; input keeps the document
\* and the cursor the key event found, ops the key
Typed(key, result, maxChars) ==
    /\ mode = "rendered"
    /\ TotalChars(result.blocks) <= maxChars
    /\ threw' = result.threw
    /\ content' = IF result.threw THEN content ELSE result.blocks
    /\ pointer' = IF result.threw THEN pointer ELSE result.newPosition
    /\ input' = [blocks |-> content, position |-> pointer]
    /\ ops' = <<key>>
    /\ UNCHANGED <<mode, plainText>>

\* onPressKey for a printable character
TypeCharacter ==
    \E char \in TypedChars :
        Typed(char, handleCharacterInput(content, pointer, char), MaxTyped)

NextTyping == TypeCharacter

\* the Writer while printable characters are typed
SpecTyping == InitTyping /\ [][NextTyping]_vars

\* onPressKey for a printable character, in a short text
EditCharacter ==
    \E char \in TypedChars :
        Typed(char, handleCharacterInput(content, pointer, char), MaxEdited)

\* onPressKey for Backspace
EditBackspace == Typed("Backspace", handleBackspace(content, pointer), MaxEdited)

\* onPressKey for Delete
EditDelete == Typed("Delete", handleDelete(content, pointer), MaxEdited)

\* onPressKey for ArrowLeft
EditArrowLeft ==
    LET moved == moveCursorLeft(content, pointer)
    IN  Typed("ArrowLeft", [blocks |-> content, newPosition |-> moved.newPosition,
                            threw |-> moved.threw], MaxEdited)

\* onPressKey for ArrowRight
EditArrowRight ==
    LET moved == moveCursorRight(content, pointer)
    IN  Typed("ArrowRight", [blocks |-> content, newPosition |-> moved.newPosition,
                             threw |-> moved.threw], MaxEdited)

NextEditing ==
    \/ EditCharacter
    \/ EditBackspace
    \/ EditDelete
    \/ EditArrowLeft
    \/ EditArrowRight

\* the Writer under typing, deleting and horizontal moves
SpecEditing == InitTyping /\ [][NextEditing]_vars

----------------------------------------------------------------------------
(* The markdown converter called directly, on documents and on texts *)

\* the characters of the documents handed to blocksToMarkdown
SerializedChars == {"a", " ", "#"}

\* blocks of the types the plain-text view writes with a line prefix or none,
\* each holding one text fragment
SerializedBlocks ==
    LET texts == SeqsUpTo(SerializedChars, MaxLen)
        block(type, t, attrs) ==
            [id |-> <<"input", 0>>, type |-> type, content |-> <<Str(t)>>,
             attrs |-> attrs]
    IN  {block("paragraph", t, NoAttrs) : t \in texts}
            \cup {block("heading", t, Attr("level", DigitString(k))) :
                     t \in texts, k \in 1 .. 2}
            \cup {block("list-item", t, Attr("listType", Unordered)) : t \in texts}
            \cup {block("quote", t, NoAttrs) : t \in texts}

\* documents of one to MaxDocBlocks such blocks holding at most MaxLen characters
SerializedDocs ==
    {Numbered(d) : d \in
        {d \in UNION {[1..n -> SerializedBlocks] : n \in 1..MaxDocBlocks} :
            TotalChars(d) <= MaxLen}}

\* the characters of the texts handed to markdownToBlocks
MarkdownChars == {"a", " ", "\n", "#", "-", ">", Backtick}

MarkdownTexts == SeqsUpTo(MarkdownChars, MaxMarkdownLen)

\* a conversion starts from a document or from a text; input keeps it
InitMarkdown ==
    /\ \/ /\ content \in SerializedDocs
          /\ plainText = <<>>
       \/ /\ content = <<>>
          /\ plainText \in MarkdownTexts
    /\ input = [blocks |-> content, position |-> <<0, 0, 0>>, text |-> plainText]
    /\ pointer = <<0, 0, 0>>
    /\ ops = <<>>
    /\ threw = FALSE
    /\ mode = "rendered"

\* the function called last
LastCalled == IF ops = <<>> THEN "" ELSE ops[Len(ops)][1]

\* blocksToMarkdown applied to the blocks at hand; ops keeps the call and what
\* it returned
CallBlocksToMarkdown ==
    /\ Len(ops) < MaxConversions
    /\ \/ ops = <<>> /\ input.blocks # <<>>
       \/ LastCalled = "markdownToBlocks"
    /\ plainText' = blocksToMarkdown(content)
    /\ ops' = Append(ops, <<"blocksToMarkdown", plainText'>>)
    /\ UNCHANGED <<content, pointer, threw, mode, input>>

\* markdownToBlocks applied to the text at hand
CallMarkdownToBlocks ==
    /\ Len(ops) < MaxConversions
    /\ \/ ops = <<>> /\ input.blocks = <<>>
       \/ LastCalled = "blocksToMarkdown"
    /\ content' = markdownToBlocks(plainText)
    /\ ops' = Append(ops, <<"markdownToBlocks", content'>>)
    /\ UNCHANGED <<plainText, pointer, threw, mode, input>>

NextMarkdown ==
    \/ CallBlocksToMarkdown
    \/ CallMarkdownToBlocks

\* blocksToMarkdown and markdownToBlocks applied in turn
SpecMarkdown == InitMarkdown /\ [][NextMarkdown]_vars

----------------------------------------------------------------------------
(* Pasting  (editor/Writer.ts) *)

RECURSIVE insertTextAtCursor(_, _, _, _)
\* insertTextAtCursor: every character of text goes through createNewBlock
\* ('\n') or insertCharacter; ids[k] is the id generateBlockId yields at the
\* k-th '\n'. A TypeError leaves the Writer as the characters before it
\* left it.
insertTextAtCursor(blocks, position, text, ids) ==
    IF text = <<>>
    THEN Result(blocks, position)
    ELSE LET char == Head(text)
             result == IF char = "\n"
                       THEN createNewBlock(blocks, position, Head(ids))
                       ELSE insertCharacter(blocks, position, char)
         IN  IF result.threw
             THEN Threw(blocks, position)
             ELSE insertTextAtCursor(result.blocks, result.newPosition, Tail(text),
                                     IF char = "\n" THEN Tail(ids) ELSE ids)

RECURSIVE TypeText(_, _, _, _)
\* onPressKey for every character of text in turn: Enter for '\n',
\* a printable character otherwise
TypeText(blocks, position, text, ids) ==
    IF text = <<>>
    THEN Result(blocks, position)
    ELSE LET char == Head(text)
             result == IF char = "\n"
                       THEN createNewBlock(blocks, position, Head(ids))
                       ELSE handleCharacterInput(blocks, position, char)
         IN  IF result.threw
             THEN Threw(blocks, position)
             ELSE TypeText(result.blocks, result.newPosition, Tail(text),
                           IF char = "\n" THEN Tail(ids) ELSE ids)

\* the texts the clipboard may hold
PastedTexts == SeqsUpTo({"#", " ", "a", "\n"}, MaxPasted) \ {<<>>}

\* pasteFromClipboard once the clipboard is read: a text that is not empty is
\* inserted at the cursor; input keeps the document and the cursor the paste
\* found, the text and the generated ids, ops the key
PasteFromClipboard ==
    /\ mode = "rendered"
    /\ ops # <<"Ctrl+V">>
    /\ \E textToPaste \in PastedTexts :
          \E ids \in [1 .. Len(SelectSeq(textToPaste, LAMBDA c : c = "\n")) -> BlockIds] :
              LET result == insertTextAtCursor(content, pointer, textToPaste, ids)
              IN  /\ threw' = result.threw
                  /\ content' = result.blocks
                  /\ pointer' = result.newPosition
                  /\ input' = [blocks |-> content, position |-> pointer,
                               text |-> textToPaste, ids |-> ids]
                  /\ ops' = <<"Ctrl+V">>
    /\ UNCHANGED <<mode, plainText>>

\* onPressKey for a printable character, before the paste
TypeBeforePaste ==
    /\ ops # <<"Ctrl+V">>
    /\ EditCharacter

NextPasting ==
    \/ TypeBeforePaste
    \/ PasteFromClipboard

\* the Writer under typing, up to and including its first paste
SpecPasting == InitTyping /\ [][NextPasting]_vars

\* pasteFromClipboard once the clipboard is read, for texts of at most MaxLen
\* characters; nothing remembers the paste
Paste ==
    /\ mode = "rendered"
    /\ \E textToPaste \in SeqsUpTo(PlainChars, MaxLen) \ {<<>>} :
          \E ids \in [1 .. Len(SelectSeq(textToPaste, LAMBDA c : c = "\n")) -> BlockIds] :
              LET result == insertTextAtCursor(content, pointer, textToPaste, ids)
              IN  /\ WithinBounds(content, result.blocks)
                  /\ IndexWithinBounds(pointer, result.newPosition)
                  /\ threw' = result.threw
                  /\ content' = result.blocks
                  /\ pointer' = result.newPosition
    /\ UNCHANGED <<mode, plainText, input, ops>>

NextDocument ==
    \/ PressCharacter
    \/ PressEnter
    \/ PressBackspace
    \/ PressDelete
    \/ PressArrowLeft
    \/ PressArrowRight
    \/ PressArrowUp
    \/ PressArrowDown
    \/ Paste
    \/ ToggleToPlain
    \/ ToggleToRendered
    \/ PlainTextInput

\* the Writer under key events, pastes, view switches and plain-text edits
SpecDocument == Init /\ [][NextDocument]_vars

----------------------------------------------------------------------------
(* Inline markdown processor  (markdown/parser.ts) *)

\* String.prototype.indexOf(ch, from): the first index of ch at or after from,
\* -1 when there is none; a negative from counts as 0
IndexOf(text, ch, from) ==
    LET found == {j \in Max(from, 0) .. Len(text) - 1 : text[j + 1] = ch}
    IN  IF found = {} THEN -1 ELSE CHOOSE j \in found : \A k \in found : j <= k

\* String.prototype.indexOf of the two characters ch ch
IndexOfPair(text, ch, from) ==
    LET found == {j \in Max(from, 0) .. Len(text) - 2 :
                      text[j + 1] = ch /\ text[j + 2] = ch}
    IN  IF found = {} THEN -1 ELSE CHOOSE j \in found : \A k \in found : j <= k

\* text[i], undefined past the end
CharAt(text, i) == IF i + 1 \in DOMAIN text THEN text[i + 1] ELSE "undefined"

\* dimensionsText.match of the pattern digits, 'x', digits
DimensionsMatch(dimensionsText) ==
    LET w == LeadingCount(dimensionsText, Digits)
        rest == SliceFrom(dimensionsText, w + 1)
    IN  IF /\ w >= 1
           /\ CharAt(dimensionsText, w) = "x"
           /\ rest # <<>>
           /\ LeadingCount(rest, Digits) = Len(rest)
        THEN Match(Slice(dimensionsText, 0, w), rest)
        ELSE NoMatch

\* the number of blocks in a content array
BlockCount(blockContent) ==
    Cardinality({k \in DOMAIN blockContent : blockContent[k].typeof = "object"})

\* result.push(currentText) when currentText is not empty
Flushed(result, currentText) ==
    IF currentText # <<>> THEN Append(result, Str(currentText)) ELSE result

\* the attrs of an image: src and alt, and width and height when both are given
ImageAttrs(imageUrl, altText, width, height) ==
    LET base == MergeAttrs(Attr("src", imageUrl), Attr("alt", altText))
    IN  IF width # <<>> /\ height # <<>>
        THEN MergeAttrs(base, MergeAttrs(Attr("width", width), Attr("height", height)))
        ELSE base

RECURSIVE InlineScan(_, _, _, _, _)
\* the loop of processInlineMarkdown from index i, with the text accumulated
\* and the elements pushed so far; ids are the ids generateBlockId yields
InlineScan(text, i, currentText, result, ids) ==
    IF i >= Len(text)
    THEN Flushed(result, currentText)
    ELSE
    LET char == CharAt(text, i)
        nextChar == CharAt(text, i + 1)
        id == ids[BlockCount(result) + 1]
        flushed == Flushed(result, currentText)
        accumulate(cur, res) == InlineScan(text, i + 1, Append(cur, char), res, ids)
        boldEnd == IndexOfPair(text, "*", i + 2)
        italicEnd == IndexOf(text, "*", i + 1)
        codeEnd == IndexOf(text, Backtick, i + 1)
        imageCloseBracket == IndexOf(text, "]", i + 2)
        linkCloseBracket == IndexOf(text, "]", i)
        closeBracket == IF char = "!" THEN imageCloseBracket ELSE linkCloseBracket
        openParen == IndexOf(text, "(", closeBracket)
        closeParen == IndexOf(text, ")", openParen)
        complete == /\ closeBracket # -1
                    /\ openParen = closeBracket + 1
                    /\ closeParen # -1
        closeBrace == IndexOf(text, "}", closeParen + 2)
        dimensionsMatch ==
            IF CharAt(text, closeParen + 1) = "{" /\ closeBrace # -1
            THEN DimensionsMatch(Slice(text, closeParen + 2, closeBrace))
            ELSE NoMatch
    IN  IF char = "*" /\ nextChar = "*"
        THEN IF boldEnd # -1
             THEN InlineScan(text, boldEnd + 2, <<>>,
                      Append(flushed, Nested(createBlock(id, "bold",
                          <<Str(Slice(text, i + 2, boldEnd))>>, NoAttrs))), ids)
             ELSE accumulate(<<>>, flushed)
        ELSE IF char = "*"
        THEN IF italicEnd # -1
             THEN InlineScan(text, italicEnd + 1, <<>>,
                      Append(flushed, Nested(createBlock(id, "italic",
                          <<Str(Slice(text, i + 1, italicEnd))>>, NoAttrs))), ids)
             ELSE accumulate(<<>>, flushed)
        ELSE IF char = Backtick
        THEN IF codeEnd # -1
             THEN InlineScan(text, codeEnd + 1, <<>>,
                      Append(flushed, Nested(createBlock(id, "code",
                          <<Str(Slice(text, i + 1, codeEnd))>>, NoAttrs))), ids)
             ELSE accumulate(<<>>, flushed)
        ELSE IF char = "!" /\ nextChar = "[" /\ complete
        THEN LET altText == Slice(text, i + 2, closeBracket)
                 imageUrl == Slice(text, openParen + 1, closeParen)
             IN  InlineScan(text,
                     IF dimensionsMatch.matched THEN closeBrace + 1 ELSE closeParen + 1,
                     <<>>,
                     Append(flushed, Nested(createBlock(id, "image", <<Str(altText)>>,
                         ImageAttrs(imageUrl, altText, dimensionsMatch.group1,
                                    dimensionsMatch.group2)))),
                     ids)
        ELSE IF char = "[" /\ complete
        THEN InlineScan(text, closeParen + 1, <<>>,
                 Append(flushed, Nested(createBlock(id, "link",
                     <<Str(Slice(text, i + 1, closeBracket))>>,
                     Attr("href", Slice(text, openParen + 1, closeParen))))), ids)
        ELSE accumulate(currentText, result)

processInlineMarkdown(text, ids) ==
    LET result == InlineScan(text, 0, <<>>, <<>>, ids)
    IN  IF Len(result) > 0 THEN result ELSE <<Str(<<>>)>>

\* texts of plain characters and emphasis and code markers
MarkerTexts == SeqsUpTo({"a", "*", Backtick}, MaxInlineLen)

\* the texts between the braces after an image
DimensionTexts == SeqsUpTo({"1", "x", "b"}, MaxDimensionLen)

\* an image with its alt text and its url, followed by suffix
ImageText(altText, imageUrl, suffix) ==
    <<"!", "[">> \o altText \o <<"]", "(">> \o imageUrl \o <<")">> \o suffix

\* images without and with a brace suffix
ImageTexts ==
    {ImageText(altText, <<"u">>, suffix) :
        altText \in {<<>>, <<"a">>},
        suffix \in {<<>>} \cup {<<"{">> \o d \o <<"}">> : d \in DimensionTexts}}

\* the texts handed to processInlineMarkdown: marker texts, images, the
\* beginnings of images, and the links left of images without their '!'
InlineTexts ==
    MarkerTexts
        \cup ImageTexts
        \cup {Slice(t, 0, n) : t \in {ImageText(<<"a">>, <<"u">>, <<"{", "1", "x", "1", "}">>)},
                               n \in 0 .. 11}
        \cup {Tail(t) : t \in ImageTexts}

\* the ids generateBlockId may yield for the blocks of one call
InlineIds == [1 .. Max(1, MaxInlineLen \div 2) -> BlockIds]

InitInline ==
    /\ plainText \in InlineTexts
    /\ input = [blocks |-> <<>>, position |-> <<0, 0, 0>>, text |-> plainText]
    /\ content = <<>>
    /\ pointer = <<0, 0, 0>>
    /\ ops = <<>>
    /\ threw = FALSE
    /\ mode = "rendered"

\* processInlineMarkdown applied to the text; ops keeps the call and the
\* content array it returned
CallProcessInlineMarkdown ==
    /\ ops = <<>>
    /\ \E ids \in InlineIds :
          ops' = <<<<"processInlineMarkdown", processInlineMarkdown(plainText, ids)>>>>
    /\ UNCHANGED <<content, pointer, threw, mode, plainText, input>>

NextInline == CallProcessInlineMarkdown

SpecInline == InitInline /\ [][NextInline]_vars

\* blocksToMarkdown applied to a paragraph holding the content array that
\* processInlineMarkdown returned; ops keeps the call and the text it returned
SerializeInline ==
    /\ Len(ops) = 1
    /\ \E id \in BlockIds :
          plainText' = blocksToMarkdown(<<createBlock(id, "paragraph", ops[1][2], NoAttrs)>>)
    /\ ops' = Append(ops, <<"blocksToMarkdown", plainText'>>)
    /\ UNCHANGED <<content, pointer, threw, mode, input>>

NextSerializing ==
    \/ CallProcessInlineMarkdown
    \/ SerializeInline

\* processInlineMarkdown, then blocksToMarkdown on what it returned
SpecSerializing == InitInline /\ [][NextSerializing]_vars

----------------------------------------------------------------------------
(* Block markdown detector  (markdown/parser.ts) *)

\* what detectBlockMarkdown yields: { type, content, attrs }, or null
Detected(type, text, attrs) ==
    [isNull |-> FALSE, type |-> type, content |-> text, attrs |-> attrs]

NotDetected == [isNull |-> TRUE, type |-> "", content |-> <<>>, attrs |-> NoAttrs]

\* a detector that does not know ordered lists
detectWithoutOrderedList(text) ==
    IF HeadingMatch(text).matched
    THEN Detected("heading", HeadingMatch(text).group2,
                  Attr("level", DigitString(Len(HeadingMatch(text).group1))))
    ELSE IF UnorderedListMatch(text).matched
    THEN Detected("list-item", UnorderedListMatch(text).group1, Attr("listType", Unordered))
    ELSE IF QuoteMatch(text).matched
    THEN Detected("quote", QuoteMatch(text).group1, NoAttrs)
    ELSE IF CodeBlockMatch(text).matched
    THEN Detected("code-block", <<>>, Attr("language", Trim(CodeBlockMatch(text).group1)))
    ELSE NotDetected

detectBlockMarkdown(text) ==
    IF HeadingMatch(text).matched
    THEN Detected("heading", HeadingMatch(text).group2,
                  Attr("level", DigitString(Len(HeadingMatch(text).group1))))
    ELSE IF UnorderedListMatch(text).matched
    THEN Detected("list-item", UnorderedListMatch(text).group1, Attr("listType", Unordered))
    ELSE IF OrderedListMatch(text).matched
    THEN Detected("list-item", OrderedListMatch(text).group1, Attr("listType", Ordered))
    ELSE IF QuoteMatch(text).matched
    THEN Detected("quote", QuoteMatch(text).group1, NoAttrs)
    ELSE IF CodeBlockMatch(text).matched
    THEN Detected("code-block", <<>>, Attr("language", Trim(CodeBlockMatch(text).group1)))
    ELSE NotDetected

\* the texts handed to detectBlockMarkdown
DetectedTexts ==
    SeqsUpTo({"a", " ", "\n", "#", "-", ">", "1", ".", Backtick}, MaxDetectedLen)

InitDetecting ==
    /\ plainText \in DetectedTexts
    /\ input = [blocks |-> <<>>, position |-> <<0, 0, 0>>, text |-> plainText]
    /\ content = <<>>
    /\ pointer = <<0, 0, 0>>
    /\ ops = <<>>
    /\ threw = FALSE
    /\ mode = "rendered"

\* detectBlockMarkdown applied to the text; ops keeps the call and what it
\* returned
CallDetectBlockMarkdown ==
    /\ ops = <<>>
    /\ ops' = <<<<"detectBlockMarkdown", detectBlockMarkdown(plainText)>>>>
    /\ UNCHANGED <<content, pointer, threw, mode, plainText, input>>

NextDetecting == CallDetectBlockMarkdown

SpecDetecting == InitDetecting /\ [][NextDetecting]_vars

----------------------------------------------------------------------------
(* Conversion calls  (editor/blockConverter.ts) *)

\* the blocks of the documents converted: paragraphs without and with attrs,
\* and a heading
ConvertedBlocks ==
    {createBlock(<<"input", 0>>, "paragraph", <<Str(<<"a">>)>>, NoAttrs),
     createBlock(<<"input", 0>>, "paragraph", <<Str(<<>>)>>, Attr("level", <<"1">>)),
     createBlock(<<"input", 0>>, "heading", <<Str(<<"a">>)>>, Attr("level", <<"1">>))}

\* a conversion starts from any document of one to MaxDocBlocks blocks and a
\* position inside or outside it
InitConverting ==
    /\ content \in {Numbered(d) : d \in UNION {[1..n -> ConvertedBlocks] : n \in 1..MaxDocBlocks}}
    /\ pointer \in (-1 .. Len(content)) \X {0} \X (0 .. 1)
    /\ input = [blocks |-> content, position |-> pointer]
    /\ ops = <<>>
    /\ threw = FALSE
    /\ mode = "rendered"
    /\ plainText = <<>>

\* tryAutoConvertMarkdown applied to the document; ops keeps the call, its
\* text and the converted flag it returned
AutoConvert ==
    /\ ops = <<>>
    /\ \E text \in DetectedTexts :
          LET result == tryAutoConvertMarkdown(content, pointer, text)
          IN  /\ content' = result.blocks
              /\ pointer' = result.newPosition
              /\ ops' = <<[name |-> "tryAutoConvertMarkdown", text |-> text,
                           converted |-> result.converted]>>
    /\ UNCHANGED <<threw, mode, plainText, input>>

\* convertBlockTo applied to the document; ops keeps the call and its arguments
ConvertTo ==
    /\ ops = <<>>
    /\ \E newType \in {"paragraph", "heading", "quote"},
          newContent \in {<<>>, <<Str(<<>>)>>, <<Str(<<"a">>), Str(<<>>)>>,
                          <<Nested(Bold), Str(<<"a">>)>>},
          newAttrs \in {NoAttrs, Attr("level", <<"2">>), Attr("listType", Ordered)} :
          LET result == convertBlockTo(content, pointer, newType, newContent, newAttrs)
          IN  /\ content' = result.blocks
              /\ pointer' = result.newPosition
              /\ ops' = <<[name |-> "convertBlockTo", newType |-> newType,
                           newContent |-> newContent, newAttrs |-> newAttrs]>>
    /\ UNCHANGED <<threw, mode, plainText, input>>

NextConverting ==
    \/ AutoConvert
    \/ ConvertTo

SpecConverting == InitConverting /\ [][NextConverting]_vars

----------------------------------------------------------------------------
(* Line-break clean-up  (utils/blockUtils.ts) *)

\* a clean-up that drops the first line-break of every run of two or more
cleanDroppingFirstOfRun(blocks) ==
    LET dropped(k) == /\ blocks[k].type = "line-break"
                      /\ k + 1 \in DOMAIN blocks
                      /\ blocks[k + 1].type = "line-break"
                      /\ (k = 1 \/ blocks[k - 1].type # "line-break")
        kept == {k \in DOMAIN blocks : ~dropped(k)}
        nth(n) == CHOOSE k \in kept : Cardinality({j \in kept : j <= k}) = n
    IN  [n \in 1 .. Cardinality(kept) |-> blocks[nth(n)]]

\* a clean-up that keeps only the first line-break of every run
cleanKeepingOne(blocks) ==
    LET kept == {k \in DOMAIN blocks :
                    \/ blocks[k].type # "line-break"
                    \/ k = 1
                    \/ blocks[k - 1].type # "line-break"}
        nth(n) == CHOOSE k \in kept : Cardinality({j \in kept : j <= k}) = n
    IN  [n \in 1 .. Cardinality(kept) |-> blocks[nth(n)]]

RECURSIVE CleanFrom(_, _, _)
\* the loop of cleanConsecutiveLineBreaks over the blocks left, with the
\* blocks cleaned so far and the line-breaks counted in a row
CleanFrom(blocks, cleaned, consecutiveLineBreaks) ==
    IF blocks = <<>>
    THEN cleaned
    ELSE LET block == Head(blocks)
         IN  IF block.type = "line-break"
             THEN CleanFrom(Tail(blocks),
                            IF consecutiveLineBreaks + 1 <= 2
                            THEN Append(cleaned, block) ELSE cleaned,
                            consecutiveLineBreaks + 1)
             ELSE CleanFrom(Tail(blocks), Append(cleaned, block), 0)

cleanConsecutiveLineBreaks(blocks) == CleanFrom(blocks, <<>>, 0)

\* the blocks of the sequences cleaned: line-breaks and paragraphs
CleanedBlocks ==
    {createBlock(<<"input", 0>>, "line-break", <<Str(<<>>)>>, NoAttrs),
     createBlock(<<"input", 0>>, "paragraph", <<Str(<<>>)>>, NoAttrs),
     createBlock(<<"input", 0>>, "paragraph", <<Str(<<"a">>)>>, NoAttrs)}

\* a clean-up starts from any sequence of at most MaxCleaned blocks
InitCleaning ==
    /\ content \in {Numbered(d) : d \in UNION {[1..n -> CleanedBlocks] : n \in 0..MaxCleaned}}
    /\ pointer = <<0, 0, 0>>
    /\ input = [blocks |-> content, position |-> pointer]
    /\ ops = <<>>
    /\ threw = FALSE
    /\ mode = "rendered"
    /\ plainText = <<>>

\* cleanConsecutiveLineBreaks applied to the blocks at hand; ops keeps the
\* call and the sequence it returned
CallCleanConsecutiveLineBreaks ==
    /\ Len(ops) < MaxOps
    /\ content' = cleanConsecutiveLineBreaks(content)
    /\ ops' = Append(ops, <<"cleanConsecutiveLineBreaks", content'>>)
    /\ UNCHANGED <<pointer, threw, mode, plainText, input>>

NextCleaning == CallCleanConsecutiveLineBreaks

SpecCleaning == InitCleaning /\ [][NextCleaning]_vars

----------------------------------------------------------------------------
(* Key events in either view  (editor/Writer.ts) *)

\* the keys of the keydown events: two printable characters, the editing keys
\* and the Ctrl shortcuts
Keys ==
    {"a", " "} \cup {"Enter", "Backspace", "Delete", "ArrowLeft", "ArrowRight",
                   "ArrowUp", "ArrowDown", "Ctrl+i", "Ctrl+c", "Ctrl+v",
                   "Ctrl+x", "Ctrl+a"}

\* the key handler an arrow key is dispatched to
ArrowMove(blocks, position, key) ==
    CASE key = "ArrowLeft" -> moveCursorLeft(blocks, position)
      [] key = "ArrowRight" -> moveCursorRight(blocks, position)
      [] key = "ArrowUp" -> moveCursorUp(blocks, position)
      [] key = "ArrowDown" -> moveCursorDown(blocks, position)

\* the switch of onPressKey: what the handler of key returns.  A Ctrl shortcut
\* returns before the switch: the clipboard handlers await the clipboard before
\* they assign anything, selectAll shows a message, and promptForImage is
\* modelled with its prompt dismissed.
Dispatch(blocks, position, key, id) ==
    CASE key \in KeyChars -> handleCharacterInput(blocks, position, key)
      [] key = "Enter" -> createNewBlock(blocks, position, id)
      [] key = "Backspace" -> handleBackspace(blocks, position)
      [] key = "Delete" -> handleDelete(blocks, position)
      [] key \in {"ArrowLeft", "ArrowRight", "ArrowUp", "ArrowDown"} ->
            LET moved == ArrowMove(blocks, position, key)
            IN  [blocks |-> blocks, newPosition |-> moved.newPosition,
                 threw |-> moved.threw]
      [] OTHER -> Result(blocks, position)

\* onPressKey without the check of the current view
onPressKeyInAnyView(viewMode, blocks, position, key, id) ==
    Dispatch(blocks, position, key, id)

\* onPressKey: outside the rendered view the event is left to the browser and
\* nothing is assigned
onPressKey(viewMode, blocks, position, key, id) ==
    IF viewMode # "rendered"
    THEN Result(blocks, position)
    ELSE Dispatch(blocks, position, key, id)

\* a keydown event on the window, in whichever view is shown; ops keeps the
\* last key that arrived while the plain view was shown
KeyDown ==
    \E key \in Keys :
      \E id \in (IF key = "Enter" THEN BlockIds ELSE {<<"random", 1>>}) :
        LET result == onPressKey(mode, content, pointer, key, id)
        IN  /\ WithinBounds(content, result.blocks)
            /\ IndexWithinBounds(pointer, result.newPosition)
            /\ threw' = result.threw
            /\ content' = IF result.threw THEN content ELSE result.blocks
            /\ pointer' = IF result.threw THEN pointer ELSE result.newPosition
            /\ ops' = IF mode = "plain" THEN <<key>> ELSE ops
            /\ UNCHANGED <<mode, plainText, input>>

NextViewKeys ==
    \/ KeyDown
    \/ ToggleToPlain
    \/ ToggleToRendered

\* the Writer under keydown events in both views and view switches
SpecViewKeys == Init /\ [][NextViewKeys]_vars

----------------------------------------------------------------------------
(* Cutting  (editor/Writer.ts) *)

\* the Writer after its constructor; input holds the internal clipboard, ops
\* the cuts whose clipboard write has not settled yet
InitCutting ==
    /\ \E id \in BlockIds : content = <<createEmptyParagraph(id)>>
    /\ pointer = <<0, 0, 0>>
    /\ threw = FALSE
    /\ mode = "rendered"
    /\ plainText = <<>>
    /\ input = [clipboard |-> <<>>]
    /\ ops = <<>>

\* onPressKey for Ctrl+X: cutToClipboard calls copyToClipboard, which takes
\* getDocumentAsText() as textToCopy, starts navigator.clipboard.writeText and
\* awaits it; nothing is assigned before the write settles
PressCut ==
    /\ mode = "rendered"
    /\ Len(ops) < MaxPending
    /\ ops' = Append(ops, [name |-> "cutToClipboard",
                           textToCopy |-> blocksToMarkdown(content)])
    /\ threw' = FALSE
    /\ UNCHANGED <<content, pointer, mode, plainText, input>>

\* the clipboard write of a pending cut settles (fulfilled or rejected):
\* copyToClipboard stores textToCopy in the internal clipboard and returns,
\* then cutToClipboard replaces the document by one empty paragraph and puts
\* the cursor at its start
CutCompletes ==
    \E i \in DOMAIN ops, id \in BlockIds :
        /\ input' = [clipboard |-> ops[i].textToCopy]
        /\ content' = <<createEmptyParagraph(id)>>
        /\ pointer' = <<0, 0, 0>>
        /\ ops' = SpliceOut(ops, i - 1)
        /\ threw' = FALSE
        /\ UNCHANGED <<mode, plainText>>

\* onPressKey for the printable character a
PressLetter ==
    /\ mode = "rendered"
    /\ Store(handleCharacterInput(content, pointer, "a"))

NextCutting ==
    \/ PressLetter
    \/ PressEnter
    \/ PressBackspace
    \/ PressCut
    \/ CutCompletes

\* the Writer under editing keys and cuts, the clipboard write of a cut
\* settling at any later time
SpecCutting == InitCutting /\ [][NextCutting]_vars

----------------------------------------------------------------------------
(* Configuration modal  (ui/ConfigModal.ts) *)

\* the 300 ms delay of the overlay-removal timer, in ticks of 100 ms
RemovalDelay == 3

\* the modal after its constructor: not visible, its overlay not in the
\* document; input holds isVisible and whether the overlay has a parent node,
\* ops the time left of every pending removal timer, oldest first
InitModal ==
    /\ content = <<createEmptyParagraph(<<"random", 1>>)>>
    /\ pointer = <<0, 0, 0>>
    /\ threw = FALSE
    /\ mode = "rendered"
    /\ plainText = <<>>
    /\ input = [isVisible |-> FALSE, attached |-> FALSE]
    /\ ops = <<>>

\* ConfigModal.isOpen
isOpen == input.isVisible

\* ConfigModal.show: appends the overlay to the body unless the modal is
\* visible already
show ==
    /\ ~input.isVisible
    /\ input' = [isVisible |-> TRUE, attached |-> TRUE]
    /\ UNCHANGED <<content, pointer, threw, mode, plainText, ops>>

\* ConfigModal.hide: schedules the removal of the overlay unless the modal is
\* hidden already
hide ==
    /\ input.isVisible
    /\ Len(ops) < MaxTimers
    /\ ops' = Append(ops, RemovalDelay)
    /\ input' = [input EXCEPT !.isVisible = FALSE]
    /\ UNCHANGED <<content, pointer, threw, mode, plainText>>

\* 100 ms pass; a timer that is due stays due until the event loop runs it
Tick ==
    /\ \E k \in DOMAIN ops : ops[k] > 0
    /\ ops' = [k \in DOMAIN ops |-> Max(ops[k] - 1, 0)]
    /\ UNCHANGED <<content, pointer, threw, mode, plainText, input>>

\* the callback of the oldest removal timer runs once the timer is due: it
\* removes the overlay from the body if the overlay has a parent node
TimerFires ==
    /\ ops # <<>>
    /\ Head(ops) = 0
    /\ ops' = Tail(ops)
    /\ input' = [input EXCEPT !.attached = FALSE]
    /\ UNCHANGED <<content, pointer, threw, mode, plainText>>

NextModal ==
    \/ show
    \/ hide
    \/ Tick
    \/ TimerFires

\* the modal under show and hide calls, the passing of time and its timers
SpecModal == InitModal /\ [][NextModal]_vars

----------------------------------------------------------------------------
(* Properties *)

\* position addresses a block of blocks
AddressesBlock(blocks, position) == HasBlock(blocks, position[1])

\* position addresses a text fragment of a block of blocks
AddressesFragment(blocks, position) ==
    /\ AddressesBlock(blocks, position)
    /\ ContentAt(blocks[position[1] + 1], position[2]).typeof = "string"

\* position is a valid cursor of blocks
ValidPosition(blocks, position) ==
    /\ AddressesFragment(blocks, position)
    /\ position[3] >= 0
    /\ position[3] <= Len(ContentAt(blocks[position[1] + 1], position[2]).text)

\* C1: under editing key events in the rendered view, the cursor always
\* addresses an existing block, a text fragment of it, and an offset between
\* 0 and the length of that fragment.
C1_CursorValidUnderKeys == ValidPosition(content, pointer)

\* C1 witness: the cursor stands inside the text of the middle block of a
\* document of three blocks
C1_Witness ==
    /\ Len(content) = 3
    /\ pointer = <<1, 0, 1>>
    /\ content[2].type = "paragraph"

\* C2: after the document is replaced from plain text, the cursor addresses
\* an existing block and text fragment of the document.
C2_PointerFollowsReplacement == AddressesFragment(content, pointer)

\* C3: from a valid starting cursor, any sequence of navigator calls ends in a
\* position whose block index is within the document and whose character
\* index is between 0 and the length of the addressed fragment.
C3_MovesKeepPositionValid ==
    ValidPosition(input.blocks, input.position)
        => /\ ~threw
           /\ AddressesBlock(content, pointer)
           /\ pointer[3] >= 0
           /\ pointer[3] <= StringLength(ContentAt(content[pointer[1] + 1], pointer[2]))

\* C3 witness: two moves from a valid cursor ended in another block
C3_Witness ==
    /\ Len(ops) = 2
    /\ ValidPosition(input.blocks, input.position)
    /\ pointer[1] # input.position[1]
    /\ pointer[3] > 0

\* C4: every line-break block has content [""] and attrs {}.
C4_LineBreaksCarryNothing ==
    \A i \in DOMAIN content :
        content[i].type = "line-break"
            => content[i].content = <<Str(<<>>)>> /\ content[i].attrs = NoAttrs

\* C5: the document never holds more than two consecutive line-break blocks.
C5_AtMostTwoLineBreaks ==
    \A i \in DOMAIN content :
        ~(/\ i + 2 \in DOMAIN content
          /\ \A k \in i .. i + 2 : content[k].type = "line-break")

\* the input document is addressed at a paragraph holding the single fragment
\* t, strictly inside t
SplitsParagraph ==
    /\ AddressesBlock(input.blocks, input.position)
    /\ input.blocks[input.position[1] + 1].type = "paragraph"
    /\ Len(input.blocks[input.position[1] + 1].content) = 1
    /\ input.position[2] = 0
    /\ AddressesFragment(input.blocks, input.position)
    /\ input.position[3] > 0
    /\ input.position[3] < Len(input.blocks[input.position[1] + 1].content[1].text)

\* C6: createNewBlock inside the text of a paragraph, then
\* deleteCharacterBackward at the returned position, yields the original number
\* of blocks with the paragraph's text restored.
C6_SplitJoinInverse ==
    (ops = <<"createNewBlock", "deleteCharacterBackward">> /\ SplitsParagraph)
        => /\ Len(content) = Len(input.blocks)
           /\ content[input.position[1] + 1].content
                  = input.blocks[input.position[1] + 1].content

\* C7: deleteCharacterBackward applied to the result of insertCharacter at a
\* text fragment, with the cursor before its end, restores blocks and cursor.
C7_InsertDeleteInverse ==
    (/\ ops = <<"insertCharacter", "deleteCharacterBackward">>
     /\ ValidPosition(input.blocks, input.position)
     /\ input.position[3]
            < Len(ContentAt(input.blocks[input.position[1] + 1], input.position[2]).text))
        => /\ ~threw
           /\ content = input.blocks
           /\ pointer = input.position

\* C7 witness: a character was inserted in the middle of a fragment and deleted
C7_Witness ==
    /\ ops = <<"insertCharacter", "deleteCharacterBackward">>
    /\ ValidPosition(input.blocks, input.position)
    /\ input.position[3] = 1
    /\ Len(ContentAt(input.blocks[input.position[1] + 1], input.position[2]).text) = 2
    /\ content = input.blocks

\* C8: a text or conversion function called with a block index that addresses
\* no block does not throw and returns the blocks and the position unchanged.
C8_MissingBlockIsNoOp ==
    (Len(ops) = 1 /\ ~AddressesBlock(input.blocks, input.position))
        => /\ ~threw
           /\ content = input.blocks
           /\ pointer = input.position

\* C9: a navigator function called with a block index that addresses no block
\* does not throw and returns the position unchanged.
C9_MoveFromMissingBlockIsNoOp ==
    (Len(ops) = 1 /\ ~AddressesBlock(input.blocks, input.position))
        => /\ ~threw
           /\ pointer = input.position

\* C10: when the addressed content element is a nested Block, insertCharacter,
\* deleteCharacterBackward, deleteCharacterForward and createNewBlock change
\* neither the blocks nor the cursor.
C10_NestedElementIsNoOp ==
    (/\ Len(ops) = 1
     /\ ops[1] \in {"insertCharacter", "deleteCharacterBackward",
                    "deleteCharacterForward", "createNewBlock"}
     /\ AddressesBlock(input.blocks, input.position)
     /\ ContentAt(input.blocks[input.position[1] + 1], input.position[2]).typeof
            = "object")
        => /\ ~threw
           /\ content = input.blocks
           /\ pointer = input.position

\* C11: deleteCharacterBackward with blockIndex = 0 and charIndex = 0 returns
\* the same block sequence and the same cursor, for every document.
C11_BackspaceAtStartIsNoOp ==
    (/\ ops = <<"deleteCharacterBackward">>
     /\ input.position[1] = 0
     /\ input.position[3] = 0)
        => /\ ~threw
           /\ content = input.blocks
           /\ pointer = input.position

\* C11 witness: Backspace was applied at the start of a document of two blocks
\* whose first block is empty
C11_Witness ==
    /\ ops = <<"deleteCharacterBackward">>
    /\ input.position = <<0, 0, 0>>
    /\ Len(input.blocks) = 2
    /\ isEmptyBlock(input.blocks[1])
    /\ Len(content) = 2

\* the block types checkAndConvertEmptySpecialBlocks reverts
StructuredTypes == {"heading", "list-item", "quote", "code-block"}

\* C12: after the Writer handles Backspace or Delete, the block addressed by the
\* cursor is never an empty heading, list-item, quote or code-block; a
\* structured block left empty by the key is a paragraph with content [""] and
\* attrs {} and the cursor is [blockIndex, 0, 0].
C12_EmptyStructuredBlockReverts ==
    (ops \in {<<"Backspace">>, <<"Delete">>} /\ AddressesBlock(content, pointer))
        => LET blockIndex == pointer[1]
               currentBlock == content[blockIndex + 1]
               before == input.blocks[input.position[1] + 1]
           IN  /\ ~(currentBlock.type \in StructuredTypes /\ isEmptyBlock(currentBlock))
               /\ (/\ before.type \in StructuredTypes
                   /\ Len(content) = Len(input.blocks)
                   /\ blockIndex = input.position[1]
                   /\ isEmptyBlock(currentBlock))
                      => /\ currentBlock.type = "paragraph"
                         /\ currentBlock.content = <<Str(<<>>)>>
                         /\ currentBlock.attrs = NoAttrs
                         /\ pointer = <<blockIndex, 0, 0>>

\* C12 witness: Backspace removed the last character of a heading, which is
\* now an empty paragraph
C12_Witness ==
    /\ ops = <<"Backspace">>
    /\ input.blocks[input.position[1] + 1].type = "heading"
    /\ ~isEmptyBlock(input.blocks[input.position[1] + 1])
    /\ pointer[1] = input.position[1]
    /\ content[pointer[1] + 1].type = "paragraph"
    /\ content[pointer[1] + 1].content = <<Str(<<>>)>>

\* the key event found the cursor at the end of a paragraph holding text only
TypedInto(text) ==
    /\ AddressesBlock(input.blocks, input.position)
    /\ input.blocks[input.position[1] + 1].type = "paragraph"
    /\ input.blocks[input.position[1] + 1].content = <<Str(text)>>
    /\ input.position = <<input.position[1], 0, Len(text)>>

\* the block the key event was typed into is now an empty block of type type
\* with attrs attrs, among as many blocks as before, with the cursor at its start
ConvertedTo(type, attrs) ==
    /\ Len(content) = Len(input.blocks)
    /\ content[input.position[1] + 1].type = type
    /\ content[input.position[1] + 1].attrs = attrs
    /\ content[input.position[1] + 1].content = <<Str(<<>>)>>
    /\ pointer = <<input.position[1], 0, 0>>

\* C13: a space typed after k '#' (1 <= k <= 6) typed into an empty paragraph
\* turns the block into a heading of level k with content [""] and the cursor
\* at [blockIndex, 0, 0]; '-' and space give an unordered list-item, '>' and
\* space a quote; no key other than the space changes a block's type.
C13_LiveConversion ==
    /\ \A k \in 1 .. 6 :
          (ops = <<" ">> /\ TypedInto(Repeat(<<"#">>, k)))
              => ConvertedTo("heading", Attr("level", DigitString(k)))
    /\ (ops = <<" ">> /\ TypedInto(<<"-">>))
          => ConvertedTo("list-item", Attr("listType", Unordered))
    /\ (ops = <<" ">> /\ TypedInto(<<">">>))
          => ConvertedTo("quote", NoAttrs)
    /\ (ops # <<>> /\ ops # <<" ">>)
          => /\ Len(content) = Len(input.blocks)
             /\ \A i \in DOMAIN content : content[i].type = input.blocks[i].type

\* C13 witness: the space after six '#' made the second block a heading of level 6
C13_Witness ==
    /\ ops = <<" ">>
    /\ TypedInto(Repeat(<<"#">>, 6))
    /\ input.position[1] = 1
    /\ content[2].type = "heading"
    /\ content[2].attrs = Attr("level", <<"6">>)

\* a block shown as an empty line: a line-break or a paragraph without text
IsBlankBlock(block) ==
    \/ block.type = "line-break"
    \/ block.type = "paragraph" /\ block.content = <<Str(<<>>)>>

NotBlankBlock(block) == ~IsBlankBlock(block)

\* the (type, text) pairs of the blocks of a document that are not blank
TypeTextPairs(blocks) ==
    LET kept == SelectSeq(blocks, NotBlankBlock)
    IN  [i \in DOMAIN kept |-> <<kept[i].type, contentToMarkdown(kept[i].content)>>]

\* C14: for a document of paragraph, heading, quote and unordered list-item
\* blocks holding one text fragment each, markdownToBlocks(blocksToMarkdown(bs))
\* has the (type, text) pairs of bs, blank blocks set aside.
C14_SerializerRoundTrip ==
    (/\ Len(ops) = 2
     /\ ops[1][1] = "blocksToMarkdown"
     /\ ops[2][1] = "markdownToBlocks")
        => TypeTextPairs(content) = TypeTextPairs(input.blocks)

\* no line of text holds a backtick, except in a fence of three at its start
OnlyBlockConstructs(text) ==
    LET lines == SplitLines(text)
        fence == <<Backtick, Backtick, Backtick>>
    IN  \A i \in DOMAIN lines :
            LET trimmed == Trim(lines[i])
                rest == IF StartsWith(trimmed, fence) THEN SliceFrom(trimmed, 3)
                        ELSE trimmed
            IN  \A j \in DOMAIN rest : rest[j] # Backtick

\* C15: with f(s) = blocksToMarkdown(markdownToBlocks(s)), f(f(s)) = f(s) for
\* every text s whose lines are block-level constructs with plain text.
C15_InterchangeStable ==
    (/\ Len(ops) = 4
     /\ ops[1][1] = "markdownToBlocks"
     /\ OnlyBlockConstructs(input.text))
        => ops[4][2] = ops[2][2]

\* C16: markdownToBlocks returns at least one block, and no two adjacent blocks
\* of its output are blank (a line-break or an empty paragraph).
C16_ParsedBlocksConsolidated ==
    LastCalled = "markdownToBlocks"
        => /\ Len(content) >= 1
           /\ \A i \in DOMAIN content :
                 i + 1 \in DOMAIN content
                     => ~(IsBlankBlock(content[i]) /\ IsBlankBlock(content[i + 1]))

\* C16 witness: a text with three consecutive empty lines was parsed into one
\* blank block between two paragraphs
C16_Witness ==
    /\ Len(ops) = 1
    /\ LastCalled = "markdownToBlocks"
    /\ input.text = <<"a", "\n", "\n", "\n", "a">>
    /\ Len(content) = 3
    /\ IsBlankBlock(content[2])

\* the content array processInlineMarkdown returned for input.text
InlineResult == ops[1][2]

\* text holds one marker, '*', '**' or a backtick, among plain characters
OnlyUnterminatedMarker(text) ==
    \E before, after \in SeqsUpTo({"a"}, MaxInlineLen) :
        \E marker \in {<<"*">>, <<"*", "*">>, <<Backtick>>} :
            text = before \o marker \o after

\* C17: a text whose only marker, '*', '**' or a backtick, has no closing
\* delimiter comes back from processInlineMarkdown as exactly one element,
\* the text itself, with no bold, italic or code block.
C17_UnterminatedStaysLiteral ==
    (ops # <<>> /\ OnlyUnterminatedMarker(input.text))
        => InlineResult = <<Str(input.text)>>

\* text is an image followed at once by a brace suffix
ImageWithBraces(text, altText, imageUrl, dimensionsText) ==
    /\ IndexOf(dimensionsText, "}", 0) = -1
    /\ text = ImageText(altText, imageUrl, <<"{">> \o dimensionsText \o <<"}">>)

\* C18: an image followed at once by a brace suffix comes back from
\* processInlineMarkdown as a single image block: with src, alt, width and
\* height when the suffix is digits 'x' digits, and still a single image
\* block with only src and alt when it is not.
C18_ImageWithBraceSuffix ==
    \A altText \in {<<>>, <<"a">>}, dimensionsText \in DimensionTexts :
        (ops # <<>> /\ ImageWithBraces(input.text, altText, <<"u">>, dimensionsText))
            => /\ Len(InlineResult) = 1
               /\ InlineResult[1].typeof = "object"
               /\ LET image == InlineResult[1].block[1]
                      m == DimensionsMatch(dimensionsText)
                  IN  /\ image.type = "image"
                      /\ image.content = <<Str(altText)>>
                      /\ image.attrs = ImageAttrs(<<"u">>, altText, m.group1, m.group2)

\* C19: pasting a text whose lines carry block-level markdown leaves the
\* document that typing the same characters leaves.
C19_PasteConvertsLikeTyping ==
    (ops = <<"Ctrl+V">> /\ ~threw)
        => content = TypeText(input.blocks, input.position, input.text, input.ids).blocks

\* C20: cleanConsecutiveLineBreaks is idempotent: applied twice to a block
\* sequence it returns what it returns applied once.
C20_CleanIsIdempotent ==
    \A k \in 2 .. Len(ops) : ops[k][2] = ops[k - 1][2]

\* a sequence with three line-breaks in a row has been cleaned twice
C20_Witness ==
    /\ Len(ops) >= 2
    /\ \E i \in 1 .. Len(input.blocks) - 2 :
          \A k \in i .. i + 2 : input.blocks[k].type = "line-break"
    /\ Len(ops[1][2]) < Len(input.blocks)

\* the number of line-breaks in a row that end at blocks[k]
RunLength(blocks, k) ==
    IF blocks[k].type # "line-break" THEN 0
    ELSE LET others == {j \in 1 .. k : blocks[j].type # "line-break"}
         IN  IF others = {} THEN k
             ELSE k - (CHOOSE j \in others : \A i \in others : i <= j)

\* the indices of blocks that are not the 3rd or a later line-break of a run
KeptIndices(blocks) == {k \in DOMAIN blocks : RunLength(blocks, k) <= 2}

DetectedResult == ops[1][2]

\* the first n characters of text are all c
StartsWithRun(text, c, n) == Len(text) >= n /\ \A k \in 1 .. n : text[k] = c

\* text is one line
OneLine(text) == \A k \in DOMAIN text : text[k] # "\n"

\* text matches one of the five block patterns
MatchesBlockPattern(text) ==
    \/ \E n \in 1 .. 6 : /\ StartsWithRun(text, "#", n)
                         /\ Len(text) > n
                         /\ text[n + 1] \in {" ", "\n"}
                         /\ OneLine(SubSeq(text, n + 2, Len(text)))
    \/ /\ Len(text) >= 2
       /\ text[1] \in {"-", "*", "+", ">"}
       /\ text[2] \in {" ", "\n"}
       /\ OneLine(SubSeq(text, 3, Len(text)))
    \/ \E n \in 1 .. Len(text) :
          /\ \A k \in 1 .. n : text[k] \in Digits
          /\ Len(text) >= n + 2
          /\ text[n + 1] = "."
          /\ text[n + 2] \in {" ", "\n"}
          /\ OneLine(SubSeq(text, n + 3, Len(text)))
    \/ /\ StartsWithRun(text, Backtick, 3)
       /\ OneLine(SubSeq(text, 4, Len(text)))

\* C22: detectBlockMarkdown classifies "## " followed by a title as a heading
\* of level 2 holding the title, "1. " followed by an item as an ordered
\* list-item holding the item, a fence line as a code-block with empty content
\* and the language after the fence, and yields null for a text that matches
\* none of the five patterns.
C22_DetectorClassifies ==
    ops # <<>> =>
        LET text == input.text
            rest(n) == SubSeq(text, n + 1, Len(text))
        IN  /\ (StartsWithRun(text, "#", 2) /\ Len(text) >= 3 /\ text[3] = " "
                    /\ OneLine(rest(3)))
                  => DetectedResult = Detected("heading", rest(3), Attr("level", <<"2">>))
            /\ (Len(text) >= 3 /\ SubSeq(text, 1, 3) = <<"1", ".", " ">> /\ OneLine(rest(3)))
                  => DetectedResult = Detected("list-item", rest(3), Attr("listType", Ordered))
            /\ (StartsWithRun(text, Backtick, 3) /\ OneLine(rest(3)) /\ " " \notin {text[k] : k \in 4 .. Len(text)})
                  => DetectedResult = Detected("code-block", <<>>, Attr("language", rest(3)))
            /\ ~MatchesBlockPattern(text) => DetectedResult.isNull

\* the detector has classified "## a" as a heading of level 2 holding "a"
C22_Witness ==
    /\ ops # <<>>
    /\ input.text = <<"#", "#", " ", "a">>
    /\ DetectedResult = Detected("heading", <<"a">>, Attr("level", <<"2">>))

\* after is before without its element at the 0-based index at
WithoutElement(before, after, at) ==
    /\ Len(after) = Len(before) - 1
    /\ \A k \in DOMAIN after : after[k] = IF k <= at THEN before[k] ELSE before[k + 1]

\* C23: deleteCharacterBackward with charIndex = 0 on a block after a
\* line-break removes that line-break and nothing else, also when the current
\* block is empty or a line-break: the addressed block and every other block
\* are unchanged and the cursor is [blockIndex - 1, 0, 0].
C23_BackspaceRemovesPreviousLineBreak ==
    (/\ ops = <<"deleteCharacterBackward">>
     /\ input.position[3] = 0
     /\ input.position[1] > 0
     /\ HasBlock(input.blocks, input.position[1])
     /\ input.blocks[input.position[1]].type = "line-break")
        => /\ ~threw
           /\ WithoutElement(input.blocks, content, input.position[1] - 1)
           /\ content[input.position[1]] = input.blocks[input.position[1] + 1]
           /\ pointer = <<input.position[1] - 1, 0, 0>>

\* C23 witness: Backspace at the start of an empty paragraph after a
\* line-break left the empty paragraph alone
C23_Witness ==
    /\ ops = <<"deleteCharacterBackward">>
    /\ input.position = <<1, 0, 0>>
    /\ Len(input.blocks) = 2
    /\ input.blocks[1].type = "line-break"
    /\ isEmptyBlock(input.blocks[2])
    /\ content = <<input.blocks[2]>>
    /\ pointer = <<0, 0, 0>>

\* the last element of the content of block
LastContent(block) == ContentAt(block, Len(block.content) - 1)

\* the call joined the block at input.position backward: charIndex = 0, a
\* previous block that is not a line-break, text fragments on both sides
JoinsBackward ==
    /\ ops = <<"deleteCharacterBackward">>
    /\ input.position[3] = 0
    /\ input.position[1] > 0
    /\ HasBlock(input.blocks, input.position[1])
    /\ input.blocks[input.position[1]].type # "line-break"
    /\ LastContent(input.blocks[input.position[1]]).typeof = "string"
    /\ ContentAt(input.blocks[input.position[1] + 1], input.position[2]).typeof = "string"

\* C24: deleteCharacterBackward with charIndex = 0 on a block after a block
\* that is not a line-break, with text fragments on both sides, removes the
\* current block and puts the cursor at the old end of the previous block's
\* last fragment; that fragment gains the current fragment when the current
\* block is neither empty nor a line-break and is unchanged otherwise.
C24_BackspaceJoinsWithPrevious ==
    JoinsBackward =>
        LET blockIndex == input.position[1]
            prevBlock == input.blocks[blockIndex]
            currentBlock == input.blocks[blockIndex + 1]
            currentText == ContentAt(currentBlock, input.position[2]).text
            prevText == LastContent(prevBlock).text
            joined == IF currentBlock.type = "line-break" \/ isEmptyBlock(currentBlock)
                      THEN prevText
                      ELSE prevText \o currentText
        IN  /\ ~threw
            /\ Len(content) = Len(input.blocks) - 1
            /\ \A k \in DOMAIN content :
                  content[k] = IF k < blockIndex THEN input.blocks[k]
                               ELSE IF k > blockIndex THEN input.blocks[k + 1]
                               ELSE [prevBlock EXCEPT
                                        !.content[Len(prevBlock.content)] = Str(joined)]
            /\ pointer = <<blockIndex - 1, Len(prevBlock.content) - 1, Len(prevText)>>

\* C24 witness: a paragraph holding "a" was joined to a paragraph holding "a"
C24_Witness ==
    /\ JoinsBackward
    /\ LastContent(input.blocks[input.position[1]]).text = <<"a">>
    /\ ContentAt(input.blocks[input.position[1] + 1], input.position[2]).text = <<"a">>
    /\ LastContent(content[input.position[1]]).text = <<"a", "a">>
    /\ pointer[3] = 1

\* createNewBlock was called on the text fragment of a block
EnterOnText ==
    /\ ops = <<"createNewBlock">>
    /\ HasBlock(input.blocks, input.position[1])
    /\ ContentAt(input.blocks[input.position[1] + 1], input.position[2]).typeof = "string"
    /\ input.position[3]
           <= Len(ContentAt(input.blocks[input.position[1] + 1], input.position[2]).text)

\* the block and the fragment text createNewBlock was called on
EnterBlock == input.blocks[input.position[1] + 1]

EnterText == ContentAt(EnterBlock, input.position[2]).text

\* the blocks before and after the addressed one are unchanged, with
\* grown more blocks in between
OthersUnchanged(before, after, blockIndex, grown) ==
    /\ Len(after) = Len(before) + grown
    /\ \A k \in DOMAIN before :
          /\ k < blockIndex + 1 => after[k] = before[k]
          /\ k > blockIndex + 1 => after[k + grown] = before[k]

\* C25: createNewBlock on a block that is not a code-block, at offset i of a
\* fragment text t that is not empty, leaves t[0..i) in the fragment, inserts
\* after the block a new paragraph with content [t[i..)] and attrs {} whatever
\* the block's type, grows the blocks by one, changes no other block, and puts
\* the cursor at [blockIndex + 1, 0, 0].
C25_EnterSplitsBlock ==
    (EnterOnText /\ EnterBlock.type # "code-block" /\ EnterText # <<>>)
        => LET blockIndex == input.position[1]
               i == input.position[3]
               newBlock == content[blockIndex + 2]
           IN  /\ ~threw
               /\ OthersUnchanged(input.blocks, content, blockIndex, 1)
               /\ content[blockIndex + 1] =
                      [EnterBlock EXCEPT !.content[input.position[2] + 1] =
                                             Str(SubSeq(EnterText, 1, i))]
               /\ newBlock.type = "paragraph"
               /\ newBlock.content = <<Str(SubSeq(EnterText, i + 1, Len(EnterText)))>>
               /\ newBlock.attrs = NoAttrs
               /\ ContentAt(content[blockIndex + 1], input.position[2]).text
                      \o newBlock.content[1].text = EnterText
               /\ pointer = <<blockIndex + 1, 0, 0>>

\* C25 witness: a line-break block holding "a " was split after the "a"
C25_Witness ==
    /\ EnterOnText
    /\ EnterBlock.type = "line-break"
    /\ EnterText = <<"a", " ">>
    /\ input.position[3] = 1
    /\ content[input.position[1] + 2].type = "paragraph"
    /\ content[input.position[1] + 2].content = <<Str(<<" ">>)>>

\* C26: createNewBlock on a block that is not a code-block and whose content
\* is the single empty fragment retypes that block, keeping its id, to a
\* line-break with content [""], inserts an empty paragraph after it, grows
\* the blocks by one and puts the cursor at [blockIndex + 1, 0, 0]; a block
\* holding only whitespace is split and keeps its type.
C26_EnterOnEmptyBlockMakesLineBreak ==
    (EnterOnText /\ EnterBlock.type # "code-block" /\ Len(EnterBlock.content) = 1)
        => LET blockIndex == input.position[1]
               i == input.position[3]
               newBlock == content[blockIndex + 2]
           IN  /\ EnterText = <<>> =>
                     /\ ~threw
                     /\ OthersUnchanged(input.blocks, content, blockIndex, 1)
                     /\ content[blockIndex + 1] =
                            [EnterBlock EXCEPT !.type = "line-break",
                                               !.content = <<Str(<<>>)>>]
                     /\ newBlock.type = "paragraph"
                     /\ newBlock.content = <<Str(<<>>)>>
                     /\ newBlock.attrs = NoAttrs
                     /\ pointer = <<blockIndex + 1, 0, 0>>
               /\ (EnterText # <<>> /\ \A k \in DOMAIN EnterText : EnterText[k] = " ") =>
                     /\ content[blockIndex + 1].type = EnterBlock.type
                     /\ content[blockIndex + 1].content = <<Str(SubSeq(EnterText, 1, i))>>
                     /\ newBlock.content = <<Str(SubSeq(EnterText, i + 1, Len(EnterText)))>>

\* C26 witness: Enter on an empty paragraph made it a line-break
C26_Witness ==
    /\ EnterOnText
    /\ EnterBlock.type = "paragraph"
    /\ EnterBlock.content = <<Str(<<>>)>>
    /\ content[input.position[1] + 1].type = "line-break"
    /\ content[input.position[1] + 1].id = EnterBlock.id
    /\ Len(content) = Len(input.blocks) + 1

\* C27: createNewBlock on the text fragment of a code-block inserts one
\* newline into the fragment at charIndex, advances charIndex by one, and
\* changes neither the number of blocks, the block's type nor any other block.
C27_EnterInCodeBlockAddsNewline ==
    (EnterOnText /\ EnterBlock.type = "code-block")
        => LET blockIndex == input.position[1]
               i == input.position[3]
           IN  /\ ~threw
               /\ OthersUnchanged(input.blocks, content, blockIndex, 0)
               /\ content[blockIndex + 1] =
                      [EnterBlock EXCEPT !.content[input.position[2] + 1] =
                          Str(SubSeq(EnterText, 1, i) \o <<"\n">>
                                  \o SubSeq(EnterText, i + 1, Len(EnterText)))]
               /\ pointer = <<blockIndex, input.position[2], i + 1>>

\* C27 witness: Enter in the middle of the text "aa" of a code-block
C27_Witness ==
    /\ EnterOnText
    /\ EnterBlock.type = "code-block"
    /\ EnterText = <<"a", "a">>
    /\ input.position[3] = 1
    /\ ContentAt(content[input.position[1] + 1], input.position[2]).text = <<"a", "\n", "a">>

\* C28: deleteCharacterForward changes neither the cursor nor the number of
\* blocks: with charIndex inside a text fragment it removes exactly the
\* character at charIndex, and otherwise, also at the end of a fragment that a
\* further block follows, it changes nothing.
C28_DeleteForwardKeepsCursor ==
    ops = <<"deleteCharacterForward">> =>
        LET blockIndex == input.position[1]
            i == input.position[3]
            inside == /\ HasBlock(input.blocks, blockIndex)
                      /\ ContentAt(input.blocks[blockIndex + 1], input.position[2]).typeof
                             = "string"
                      /\ i < Len(ContentAt(input.blocks[blockIndex + 1], input.position[2]).text)
            t == ContentAt(input.blocks[blockIndex + 1], input.position[2]).text
        IN  /\ ~threw
            /\ pointer = input.position
            /\ Len(content) = Len(input.blocks)
            /\ content = IF inside
                         THEN [input.blocks EXCEPT
                                  ![blockIndex + 1].content[input.position[2] + 1] =
                                      Str(SubSeq(t, 1, i) \o SubSeq(t, i + 2, Len(t)))]
                         ELSE input.blocks

\* C28 witness: Delete at the end of the text of the first of two blocks
C28_Witness ==
    /\ ops = <<"deleteCharacterForward">>
    /\ Len(input.blocks) = 2
    /\ input.blocks[1].content = <<Str(<<"a">>)>>
    /\ input.position = <<0, 0, 1>>
    /\ content = input.blocks

\* the call the conversion made
Conversion == ops[1]

\* C29: tryAutoConvertMarkdown agrees with detectBlockMarkdown: it converts
\* exactly when the addressed block is a paragraph and the detector finds a
\* pattern in the text; the block then has the detector's type, the detector's
\* content as its single fragment and the detector's attrs added to its own;
\* otherwise blocks and position are unchanged.
C29_ConverterAgreesWithDetector ==
    (ops # <<>> /\ Conversion.name = "tryAutoConvertMarkdown") =>
        LET blockIndex == input.position[1]
            detected == detectBlockMarkdown(Conversion.text)
            isParagraph == /\ HasBlock(input.blocks, blockIndex)
                           /\ input.blocks[blockIndex + 1].type = "paragraph"
            before == input.blocks[blockIndex + 1]
        IN  /\ Conversion.converted <=> (isParagraph /\ ~detected.isNull)
            /\ Conversion.converted =>
                  content = [input.blocks EXCEPT ![blockIndex + 1] =
                                [id |-> before.id,
                                 type |-> detected.type,
                                 content |-> <<Str(detected.content)>>,
                                 attrs |-> MergeAttrs(before.attrs, detected.attrs)]]
            /\ ~Conversion.converted =>
                  content = input.blocks /\ pointer = input.position

\* C29 witness: the text "1. a" made the paragraph an ordered list-item
C29_Witness ==
    /\ ops # <<>>
    /\ Conversion.name = "tryAutoConvertMarkdown"
    /\ Conversion.text = <<"1", ".", " ", "a">>
    /\ Conversion.converted
    /\ content[input.position[1] + 1].type = "list-item"
    /\ content[input.position[1] + 1].content = <<Str(<<"a">>)>>

C31_ParserAgreesWithDetector ==
    (/\ Len(ops) = 1
     /\ ops[1][1] = "markdownToBlocks"
     /\ \A k \in DOMAIN input.text : input.text[k] # "\n"
     /\ Trim(input.text) # <<>>)
        => LET detected == detectBlockMarkdown(input.text)
               block == content[1]
           IN  /\ Len(content) = 1
               /\ (block.type = "paragraph") <=> detected.isNull
               /\ detected.type \in {"heading", "list-item", "quote"}
                     => /\ block.type = detected.type
                        /\ block.content = <<Str(detected.content)>>

\* C32: blocksToMarkdown writes an image block as ![alt](src), followed by
\* {WIDTHxHEIGHT} when it has both width and height: an image with dimensions
\* that processInlineMarkdown produced serializes back to the text it was
\* read from.
C32_ImageKeepsDimensions ==
    \A altText \in {<<>>, <<"a">>}, dimensionsText \in DimensionTexts :
        (/\ Len(ops) = 2
         /\ DimensionsMatch(dimensionsText).matched
         /\ input.text = ImageText(altText, <<"u">>, <<"{">> \o dimensionsText \o <<"}">>))
            => ops[2][2] = input.text

\* the ids of the top-level blocks are pairwise distinct
IdsDistinct ==
    \A i, j \in DOMAIN content : content[i].id = content[j].id => i = j

\* a step leaves its id to every block that keeps its place, type, content
\* and attrs
IdsStable ==
    \A k \in DOMAIN content \cap DOMAIN content' :
        (/\ content'[k].type = content[k].type
         /\ content'[k].content = content[k].content
         /\ content'[k].attrs = content[k].attrs)
            => content'[k].id = content[k].id

\* C33: in every reachable editor state the ids of the top-level blocks are
\* pairwise distinct, and no operation changes the id of a block that stays in
\* the document.
C33_IdsUniqueAndStable == [](IdsDistinct) /\ [][IdsStable]_vars

\* C34: while the plain view is shown, a keydown event (Ctrl shortcuts
\* included) changes neither the block sequence nor the cursor: a step that
\* records a key in ops while mode is "plain" leaves content and pointer as
\* they were.
C34_PlainViewIgnoresKeys ==
    [][(mode = "plain" /\ ops' # ops)
          => (content' = content /\ pointer' = pointer)]_vars

\* a key has arrived in the plain view, over a document of two blocks
C34_Witness ==
    /\ mode = "plain"
    /\ ops = <<"Backspace">>
    /\ Len(content) = 2
    /\ pointer = <<0, 0, 0>>

\* C35: in every state reachable from the initial state by key events, pastes
\* and document replacement through markdownToBlocks, the content of every
\* top-level block is exactly one element, that element is a text fragment,
\* and the contentIndex of the cursor is 0.
C35_OneTextFragment ==
    /\ \A k \in DOMAIN content :
          /\ Len(content[k].content) = 1
          /\ content[k].content[1].typeof = "string"
    /\ pointer[2] = 0

\* a document that markdownToBlocks produced, with a block that Enter or a
\* paste added after it and the cursor in that block
C35_Witness ==
    /\ mode = "rendered"
    /\ Len(content) = 2
    /\ content[1].id = <<"block", 0>>
    /\ content[1].content = <<Str(<<"a">>)>>
    /\ content[2].id[1] = "random"
    /\ pointer = <<1, 0, 0>>

RECURSIVE FragmentsText(_)
\* the text fragments of a content array, nested blocks included, in order
FragmentsText(blockContent) ==
    IF blockContent = <<>> THEN <<>>
    ELSE LET item == Head(blockContent)
         IN  (CASE item.typeof = "string" -> item.text
                [] item.block # <<>> -> FragmentsText(item.block[1].content)
                [] OTHER -> <<>>)
             \o FragmentsText(Tail(blockContent))

RECURSIVE DocumentText(_)
\* the text fragments of all blocks in document order
DocumentText(blocks) ==
    IF blocks = <<>> THEN <<>>
    ELSE FragmentsText(Head(blocks).content) \o DocumentText(Tail(blocks))

\* C36: Backspace across a block boundary discards no text: after
\* deleteCharacterBackward with charIndex = 0 and blockIndex > 0 the
\* concatenation of all text fragments of all blocks is what it was before
\* the call, also when the current block holds only whitespace or a removed
\* line-break holds text.
C36_BackspaceKeepsText ==
    (/\ ops = <<"deleteCharacterBackward">>
     /\ input.position[3] = 0
     /\ input.position[1] > 0
     /\ ~threw)
        => DocumentText(content) = DocumentText(input.blocks)

\* the (type, text, attrs) of the blocks of a document
TypeTextAttrs(blocks) ==
    [k \in DOMAIN blocks |->
        <<blocks[k].type, FragmentsText(blocks[k].content), blocks[k].attrs>>]

\* C37: switching from the rendered view to the plain view and back without
\* editing the plain text leaves the sequence of (type, text, attrs) of the
\* blocks unchanged, for every document reachable by key events: the switch
\* back to the rendered view, taken while the plain text is still the markdown
\* of a document whose blocks all come from the key handlers, changes no
\* (type, text, attrs).
C37_ViewRoundTrip ==
    [][(/\ mode = "plain"
        /\ mode' = "rendered"
        /\ plainText = blocksToMarkdown(content)
        /\ \A k \in DOMAIN content : content[k].id[1] = "random")
          => TypeTextAttrs(content') = TypeTextAttrs(content)]_vars

\* C38: cut loses no text under interleaving: when a cut completes, the
\* internal clipboard holds the markdown of the document the cut cleared,
\* whatever keys were handled while the clipboard write was pending.
C38_CutKeepsText ==
    [][Len(ops') < Len(ops)
          => input'.clipboard = blocksToMarkdown(content)]_vars

\* C39: for the configuration modal, after any interleaving of show and hide
\* calls with the firing of the removal timers, once no timer is pending
\* isOpen() is true if and only if the overlay is attached to the body.
C39_OverlayAttachedIffOpen ==
    ops = <<>> => (isOpen <=> input.attached)

====
